---- MODULE Spec2Model ----
(***************************************************************************)
(* Model of chess-data-analytics: the review-page extractor (parser.py),   *)
(* the games table (database.py) and their callers.                        *)
(*                                                                         *)
(* Representation.                                                         *)
(*  - A Python str is a sequence of tokens.  A token is one character      *)
(*    ("1", "-", "\\", ...) or an atomic word standing for a literal run   *)
(*    of letters that no pattern of the code splits ("[Result", "white").  *)
(*  - A Python value is a tagged record: [t |-> "str", v |-> tokens],     *)
(*    [t |-> "int", v |-> n], [t |-> "float", num, exp] (num / 10^exp),   *)
(*    [t |-> "None"], [t |-> "dict", v |-> function], [t |-> "list", ..]. *)
(*  - A Python dict is a function whose DOMAIN is its key set.             *)
(***************************************************************************)
EXTENDS Integers, Sequences, FiniteSets, TLC

VARIABLES
    games,      \* the games table: sequence of rows in insertion order
    inserted,   \* history of the dicts handed to insert_game
    call,       \* pending extractor call: [fn, html, game_id, pgn]
    ret         \* outcome of the call: [status, exc, value]

vars == <<games, inserted, call, ret>>

-----------------------------------------------------------------------------
(* Python values *)

PyNone == [t |-> "None"]
PyStr(s) == [t |-> "str", v |-> s]
PyInt(n) == [t |-> "int", v |-> n]
PyDict(f) == [t |-> "dict", v |-> f]
PyList(s) == [t |-> "list", v |-> s]

EmptyDict == [k \in {} |-> PyNone]

RECURSIVE NormFloat(_, _)
NormFloat(num, exp) ==
    IF exp > 0 /\ num % 10 = 0 THEN NormFloat(num \div 10, exp - 1)
    ELSE [t |-> "float", num |-> num, exp |-> exp]

\* the float num / 10^exp
PyFloat(num, exp) == NormFloat(num, exp)

\* bool(v): Python truthiness
Truthy(v) ==
    CASE v.t = "None"  -> FALSE
      [] v.t = "str"   -> Len(v.v) > 0
      [] v.t = "int"   -> v.v # 0
      [] v.t = "float" -> v.num # 0
      [] v.t = "dict"  -> DOMAIN v.v # {}
      [] v.t = "list"  -> Len(v.v) > 0

\* a or b
PyOr(a, b) == IF Truthy(a) THEN a ELSE b

\* v == 0 for a number or any other value
IsZero(v) ==
    CASE v.t = "int"   -> v.v = 0
      [] v.t = "float" -> v.num = 0
      [] OTHER         -> FALSE

\* d.get(k, default) on a dict given as a function
Get(d, k, default) == IF k \in DOMAIN d THEN d[k] ELSE default

-----------------------------------------------------------------------------
(* Text *)

Whitespace == {" ", "\n", "\t"}
DigitVal == [c \in {"0", "1", "2", "3", "4", "5", "6", "7", "8", "9"} |->
               CASE c = "0" -> 0 [] c = "1" -> 1 [] c = "2" -> 2 [] c = "3" -> 3
                 [] c = "4" -> 4 [] c = "5" -> 5 [] c = "6" -> 6 [] c = "7" -> 7
                 [] c = "8" -> 8 [] c = "9" -> 9]
Digits == DOMAIN DigitVal
OctDigits == {"0", "1", "2", "3", "4", "5", "6", "7"}

IsSpace(c) == c \in Whitespace
IsDigit(c) == c \in Digits
NotQuote(c) == c # "\""

\* number of leading tokens of s, from position i on, that satisfy Cls
RunLen(s, i, Cls(_)) ==
    CHOOSE n \in 0..(Len(s) + 1 - i) :
        /\ \A k \in i..(i + n - 1) : Cls(s[k])
        /\ (i + n > Len(s) \/ ~Cls(s[i + n]))

\* number of trailing whitespace tokens of s
TrailLen(s) ==
    CHOOSE n \in 0..Len(s) :
        /\ \A k \in (Len(s) - n + 1)..Len(s) : IsSpace(s[k])
        /\ (n = Len(s) \/ ~IsSpace(s[Len(s) - n]))

\* str.strip()
Strip(s) ==
    LET lead == RunLen(s, 1, IsSpace)
    IN  IF lead = Len(s) THEN <<>>
        ELSE SubSeq(s, lead + 1, Len(s) - TrailLen(s))

\* the sequences pieces[lo], ..., pieces[hi] joined in order
RECURSIVE Concat(_, _, _)
Concat(pieces, lo, hi) ==
    IF lo > hi THEN <<>>
    ELSE IF lo = hi THEN pieces[lo]
    ELSE Concat(pieces, lo, (lo + hi) \div 2) \o Concat(pieces, (lo + hi) \div 2 + 1, hi)

\* str.replace("\\/", "/"): the "\" of every pair "\" "/" is dropped
ReplaceEscSlash(s) ==
    Concat([i \in 1..Len(s) |->
               IF s[i] = "\\" /\ i < Len(s) /\ s[i + 1] = "/" THEN <<>> ELSE <<s[i]>>],
           1, Len(s))

\* value of a run of decimal digits
RECURSIVE DigitsValue(_)
DigitsValue(s) ==
    IF s = <<>> THEN 0
    ELSE 10 * DigitsValue(SubSeq(s, 1, Len(s) - 1)) + DigitVal[s[Len(s)]]

AllDigits(s) == Len(s) > 0 /\ \A i \in 1..Len(s) : IsDigit(s[i])

RECURSIVE Pow10(_)
Pow10(n) == IF n = 0 THEN 1 ELSE 10 * Pow10(n - 1)

\* int of a sign-free body
IntBody(neg, body) ==
    IF AllDigits(body)
    THEN [ok |-> TRUE, v |-> (IF neg THEN 0 - 1 ELSE 1) * DigitsValue(body)]
    ELSE [ok |-> FALSE, v |-> 0]

\* int of a stripped text
IntSigned(s) ==
    IF Len(s) > 0 /\ s[1] \in {"-", "+"} THEN IntBody(s[1] = "-", Tail(s))
    ELSE IntBody(FALSE, s)

\* int(text): [ok, v]; ok = FALSE stands for ValueError
IntOf(text) == IntSigned(Strip(text))

\* float of a sign-free body whose integer part has ilen digits and whose
\* fraction, after the dot, is fpart
FloatParts(neg, body, ilen, dot, fpart) ==
    IF /\ ilen + Len(fpart) > 0
       /\ (dot \/ ilen = Len(body))
       /\ \A i \in 1..Len(fpart) : IsDigit(fpart[i])
    THEN [ok |-> TRUE,
          v  |-> PyFloat((IF neg THEN 0 - 1 ELSE 1)
                            * DigitsValue(SubSeq(body, 1, ilen) \o fpart),
                         Len(fpart))]
    ELSE [ok |-> FALSE, v |-> PyFloat(0, 0)]

\* float of a sign-free body
FloatBody(neg, body, ilen) ==
    IF ilen < Len(body) /\ body[ilen + 1] = "."
    THEN FloatParts(neg, body, ilen, TRUE, SubSeq(body, ilen + 2, Len(body)))
    ELSE FloatParts(neg, body, ilen, FALSE, <<>>)

\* float of a stripped text
FloatSigned(s) ==
    IF Len(s) > 0 /\ s[1] \in {"-", "+"}
    THEN FloatBody(s[1] = "-", Tail(s), RunLen(Tail(s), 1, IsDigit))
    ELSE FloatBody(FALSE, s, RunLen(s, 1, IsDigit))

\* float(text): [ok, v]; ok = FALSE stands for ValueError
FloatOf(text) == FloatSigned(Strip(text))

\* try: return <conversion>  except ValueError: return <default>
ValueOr(converted, default) == IF converted.ok THEN converted.v ELSE default

\* _safe_int without the None check: the missing element's None is returned
_safe_int_none(text) ==
    IF text.t = "None" THEN PyNone
    ELSE IF Strip(text.v) = <<>> THEN PyInt(0)
    ELSE PyInt(ValueOr(IntOf(Strip(text.v)), 0))

\* _safe_int(text): text is PyNone or a str value
_safe_int(text) ==
    IF text.t = "None" THEN PyInt(0)
    ELSE IF Strip(text.v) = <<>> THEN PyInt(0)
    ELSE PyInt(ValueOr(IntOf(Strip(text.v)), 0))

\* _safe_float(text)
_safe_float(text) ==
    IF text.t = "None" THEN PyFloat(0, 0)
    ELSE IF Strip(text.v) = <<>> THEN PyFloat(0, 0)
    ELSE ValueOr(FloatOf(Strip(text.v)), PyFloat(0, 0))

-----------------------------------------------------------------------------
(* bytes.decode("unicode_escape") *)

HexVal == DigitVal @@ [c \in {"a", "b", "c", "d", "e", "f"} |->
               CASE c = "a" -> 10 [] c = "b" -> 11 [] c = "c" -> 12
                 [] c = "d" -> 13 [] c = "e" -> 14 [] c = "f" -> 15]
IsOct(c) == c \in OctDigits

\* chr(code) for the codes of the one-character tokens; "?" is any other character
CodeChar(code) ==
    CASE code = 9  -> "\t"
      [] code = 10 -> "\n"
      [] code = 32 -> " "
      [] code = 34 -> "\""
      [] code = 42 -> "*"
      [] code = 43 -> "+"
      [] code = 45 -> "-"
      [] code = 46 -> "."
      [] code = 47 -> "/"
      [] code \in 48..57 -> CHOOSE c \in Digits : DigitVal[c] = code - 48
      [] code = 92 -> "\\"
      [] OTHER -> "?"

RECURSIVE OctValue(_)
OctValue(s) ==
    IF s = <<>> THEN 0
    ELSE 8 * OctValue(SubSeq(s, 1, Len(s) - 1)) + DigitVal[s[Len(s)]]

Min(a, b) == IF a < b THEN a ELSE b

\* number of consecutive "\" tokens that end at position i
BackslashRun(s, i) ==
    CHOOSE n \in 0..i :
        /\ \A k \in (i - n + 1)..i : s[k] = "\\"
        /\ (n = i \/ s[i - n] # "\\")

\* an escape sequence begins at i: a "\" that the "\" before it does not escape
EscapeStart(s, i) == s[i] = "\\" /\ BackslashRun(s, i) % 2 = 1

\* the escape sequence that begins at i: [ok, len, out], len tokens decoded to out
Escape(s, i) ==
    IF i = Len(s) THEN [ok |-> FALSE, len |-> 1, out |-> <<>>]  \* \ at end of string
    ELSE LET c == s[i + 1]
         IN  CASE c = "\n" -> [ok |-> TRUE, len |-> 2, out |-> <<>>]
               [] c \in {"\\", "\"", "'"} -> [ok |-> TRUE, len |-> 2, out |-> <<c>>]
               [] c = "n" -> [ok |-> TRUE, len |-> 2, out |-> <<"\n">>]
               [] c = "t" -> [ok |-> TRUE, len |-> 2, out |-> <<"\t">>]
               [] c \in OctDigits ->
                    LET n == Min(3, RunLen(s, i + 1, IsOct))
                    IN  [ok |-> TRUE, len |-> 1 + n,
                         out |-> <<CodeChar(OctValue(SubSeq(s, i + 1, i + n)))>>]
               [] c = "x" ->
                    IF i + 3 <= Len(s) /\ s[i + 2] \in DOMAIN HexVal
                                       /\ s[i + 3] \in DOMAIN HexVal
                    THEN [ok |-> TRUE, len |-> 4,
                          out |-> <<CodeChar(16 * HexVal[s[i + 2]] + HexVal[s[i + 3]])>>]
                    ELSE [ok |-> FALSE, len |-> 2, out |-> <<>>]  \* truncated \xXX escape
               [] OTHER -> [ok |-> TRUE, len |-> 2, out |-> <<"\\", c>>]

\* what the token at i contributes to the decoded text
Decoded(s, i) ==
    IF EscapeStart(s, i) THEN Escape(s, i).out
    ELSE IF \E j \in 1..(i - 1) : EscapeStart(s, j) /\ i < j + Escape(s, j).len THEN <<>>
    ELSE <<s[i]>>

\* [ok, v]: ok = FALSE stands for UnicodeDecodeError, v is then the text decoded
\* before the malformed escape
unicode_escape(s) ==
    LET bad  == {i \in 1..Len(s) : EscapeStart(s, i) /\ ~Escape(s, i).ok}
        last == IF bad = {} THEN Len(s) ELSE (CHOOSE m \in bad : \A k \in bad : m <= k) - 1
    IN  [ok |-> bad = {}, v |-> Concat([i \in 1..last |-> Decoded(s, i)], 1, last)]

-----------------------------------------------------------------------------
(* re.search(r'\[<Tag>\s+"(<class>+)"\]', s): the tag opener "[Tag" is one *)
(* token; the group is a run of tokens of the class closed by "] .        *)

TagMatchAt(s, i, tag, Cls(_)) ==
    /\ s[i] = tag
    /\ LET ws == RunLen(s, i + 1, IsSpace)
           q  == i + 1 + ws
       IN  /\ ws >= 1
           /\ q <= Len(s) /\ s[q] = "\""
           /\ LET n == RunLen(s, q + 1, Cls)
                  e == q + 1 + n
              IN  /\ n >= 1
                  /\ e + 1 <= Len(s)
                  /\ s[e] = "\"" /\ s[e + 1] = "]"

TagGroupAt(s, i, Cls(_)) ==
    LET q == i + 1 + RunLen(s, i + 1, IsSpace)
    IN  SubSeq(s, q + 1, q + RunLen(s, q + 1, Cls))

\* [found, group] of the leftmost match
re_search_tag(s, tag, Cls(_)) ==
    LET starts == {i \in 1..Len(s) : TagMatchAt(s, i, tag, Cls)}
    IN  IF starts = {} THEN [found |-> FALSE, group |-> <<>>]
        ELSE LET i == CHOOSE m \in starts : \A k \in starts : m <= k
             IN  [found |-> TRUE, group |-> TagGroupAt(s, i, Cls)]

CanonicalResults ==
    { <<"1", "-", "0">>, <<"0", "-", "1">>,
      <<"1", "/", "2", "-", "1", "/", "2">>, <<"*">> }

\* parse_pgn_text reading white_rating from BlackElo and black_rating from WhiteElo
parse_pgn_text_swapped(pgn) ==
    LET result_match == re_search_tag(pgn, "[Result", NotQuote)
        r == ReplaceEscSlash(Strip(result_match.group))
        w_match == re_search_tag(pgn, "[BlackElo", IsDigit)
        b_match == re_search_tag(pgn, "[WhiteElo", IsDigit)
    IN  [k \in {"result", "white_rating", "black_rating"} |->
            CASE k = "result" ->
                    PyStr(IF result_match.found /\ r \in CanonicalResults THEN r ELSE <<>>)
              [] k = "white_rating" ->
                    IF w_match.found THEN _safe_int(PyStr(w_match.group)) ELSE PyInt(0)
              [] k = "black_rating" ->
                    IF b_match.found THEN _safe_int(PyStr(b_match.group)) ELSE PyInt(0)]

\* parse_pgn_text(pgn): the returned dict
parse_pgn_text(pgn) ==
    LET result_match == re_search_tag(pgn, "[Result", NotQuote)
        r == ReplaceEscSlash(Strip(result_match.group))
        result == IF result_match.found /\ r \in CanonicalResults THEN r ELSE <<>>
        w_match == re_search_tag(pgn, "[WhiteElo", IsDigit)
        b_match == re_search_tag(pgn, "[BlackElo", IsDigit)
        white_rating == IF w_match.found THEN _safe_int(PyStr(w_match.group)) ELSE PyInt(0)
        black_rating == IF b_match.found THEN _safe_int(PyStr(b_match.group)) ELSE PyInt(0)
    IN  [k \in {"result", "white_rating", "black_rating"} |->
            CASE k = "result" -> PyStr(result)
              [] k = "white_rating" -> white_rating
              [] k = "black_rating" -> black_rating]

-----------------------------------------------------------------------------
(* json.loads over the decoded tokens: objects, arrays, strings without    *)
(* escapes, integers, decimals and null                                    *)

JFail == [ok |-> FALSE, v |-> PyNone, next |-> 0]
SkipWs(s, i) == IF i > Len(s) THEN i ELSE i + RunLen(s, i, IsSpace)
IsStrChar(c) == c \notin {"\"", "\\", "\n", "\t"}

JString(s, i) ==
    LET n == RunLen(s, i + 1, IsStrChar)
        e == i + 1 + n
    IN  IF e <= Len(s) /\ s[e] = "\""
        THEN [ok |-> TRUE, v |-> PyStr(SubSeq(s, i + 1, e - 1)), next |-> e + 1]
        ELSE JFail

JNumber(s, i) ==
    LET neg  == s[i] = "-"
        d    == IF neg THEN i + 1 ELSE i
        n    == IF d > Len(s) THEN 0 ELSE RunLen(s, d, IsDigit)
        e    == d + n
        dot  == e <= Len(s) /\ s[e] = "."
        fn   == IF dot /\ e + 1 <= Len(s) THEN RunLen(s, e + 1, IsDigit) ELSE 0
        ip   == SubSeq(s, d, e - 1)
        fp   == SubSeq(s, e + 1, e + fn)
    IN  IF n = 0 \/ (n > 1 /\ s[d] = "0") \/ (dot /\ fn = 0) THEN JFail
        ELSE IF dot
        THEN [ok |-> TRUE, next |-> e + 1 + fn,
              v  |-> PyFloat(IF neg THEN 0 - DigitsValue(ip \o fp)
                             ELSE DigitsValue(ip \o fp), fn)]
        ELSE [ok |-> TRUE, next |-> e,
              v  |-> PyInt(IF neg THEN 0 - DigitsValue(ip) ELSE DigitsValue(ip))]

RECURSIVE JValue(_, _), JMembers(_, _, _), JElements(_, _, _)

\* value starting at token i (i is not whitespace)
JValue(s, i) ==
    IF i > Len(s) THEN JFail
    ELSE CASE s[i] = "{" ->
                LET j == SkipWs(s, i + 1)
                IN  IF j <= Len(s) /\ s[j] = "}"
                    THEN [ok |-> TRUE, v |-> PyDict(EmptyDict), next |-> j + 1]
                    ELSE JMembers(s, j, EmptyDict)
           [] s[i] = "[" ->
                LET j == SkipWs(s, i + 1)
                IN  IF j <= Len(s) /\ s[j] = "]"
                    THEN [ok |-> TRUE, v |-> PyList(<<>>), next |-> j + 1]
                    ELSE JElements(s, j, <<>>)
           [] s[i] = "\"" -> JString(s, i)
           [] s[i] = "null" -> [ok |-> TRUE, v |-> PyNone, next |-> i + 1]
           [] s[i] \in Digits \union {"-"} -> JNumber(s, i)
           [] OTHER -> JFail

\* "key": value pairs from token i on; acc holds the pairs read so far
JMembers(s, i, acc) ==
    IF i > Len(s) \/ s[i] # "\"" THEN JFail
    ELSE LET k == JString(s, i)
             c == SkipWs(s, k.next)
         IN  IF ~k.ok \/ c > Len(s) \/ s[c] # ":" THEN JFail
             ELSE LET val == JValue(s, SkipWs(s, c + 1))
                      e   == SkipWs(s, val.next)
                      obj == (k.v.v :> val.v) @@ acc        \* a repeated key: last wins
                  IN  IF ~val.ok \/ e > Len(s) THEN JFail
                      ELSE IF s[e] = "}"
                      THEN [ok |-> TRUE, v |-> PyDict(obj), next |-> e + 1]
                      ELSE IF s[e] = ","
                      THEN JMembers(s, SkipWs(s, e + 1), obj)
                      ELSE JFail

JElements(s, i, acc) ==
    LET val == JValue(s, i)
        e   == SkipWs(s, val.next)
    IN  IF ~val.ok \/ e > Len(s) THEN JFail
        ELSE IF s[e] = "]"
        THEN [ok |-> TRUE, v |-> PyList(Append(acc, val.v)), next |-> e + 1]
        ELSE IF s[e] = ","
        THEN JElements(s, SkipWs(s, e + 1), Append(acc, val.v))
        ELSE JFail

\* [ok, v]: ok = FALSE stands for json.JSONDecodeError
json_loads(s) ==
    LET r == JValue(s, SkipWs(s, 1))
    IN  IF r.ok /\ SkipWs(s, r.next) = Len(s) + 1
        THEN [ok |-> TRUE, v |-> r.v]
        ELSE [ok |-> FALSE, v |-> PyNone]

-----------------------------------------------------------------------------
(* The page.  html = [dom, scripts].                                       *)
(*  dom: the element tree BeautifulSoup builds, as the sequence of its     *)
(*    elements in document order; an element is                            *)
(*    [parent, name, cy, cls, test, text]: index of the parent element     *)
(*    (0 at top level), tag name, data-cy attribute split at "-" into      *)
(*    parts (each a token sequence), class list, data-test-element         *)
(*    attribute and the element's own text.                                *)
(*  scripts: the script statements of the page text in order, each         *)
(*    [key, body]: key "pgn" is the text  pgn: '<body>',  and key          *)
(*    "userDetails" the text  userDetails: JSON.parse("<body>") .          *)

NoCy == << <<>> >>                    \* "".split("-")

Node(parent, name, cy, cls, test, text) ==
    [parent |-> parent, name |-> name, cy |-> cy, cls |-> cls,
     test |-> test, text |-> text]

RECURSIVE IsAncestor(_, _, _)
\* element a is a proper ancestor of element i
IsAncestor(dom, a, i) ==
    LET p == dom[i].parent
    IN  p # 0 /\ (p = a \/ IsAncestor(dom, a, p))

RECURSIVE SortedSeq(_)
SortedSeq(S) ==
    IF S = {} THEN <<>>
    ELSE LET m == CHOOSE x \in S : \A y \in S : x <= y
         IN  <<m>> \o SortedSeq(S \ {m})

\* the data-cy value starts with the given parts followed by "-"
CyStarts(cy, prefix) ==
    /\ Len(cy) > Len(prefix)
    /\ \A i \in 1..Len(prefix) : cy[i] = <<prefix[i]>>

\* the data-cy value contains  a-b
CyContains2(cy, a, b) ==
    \E i \in 1..(Len(cy) - 1) :
        /\ cy[i] # <<>> /\ cy[i][Len(cy[i])] = a
        /\ cy[i + 1] # <<>> /\ cy[i + 1][1] = b

\* word in data_cy
CyHasWord(cy, word) == \E i \in 1..Len(cy) : \E k \in 1..Len(cy[i]) : cy[i][k] = word

\* the data-cy value is not the empty string
CyNonEmpty(cy) == cy # NoCy

\* el.get_text(): the texts of the element and its descendants, in order
RECURSIVE ConcatText(_, _, _, _)
ConcatText(dom, root, k, strip) ==
    IF k > Len(dom) THEN <<>>
    ELSE (IF k = root \/ IsAncestor(dom, root, k)
          THEN (IF strip THEN Strip(dom[k].text) ELSE dom[k].text)
          ELSE <<>>) \o ConcatText(dom, root, k + 1, strip)

get_text(dom, i) == PyStr(ConcatText(dom, i, i, FALSE))
get_text_strip(dom, i) == PyStr(ConcatText(dom, i, i, TRUE))

\* scope: 0 for soup.select, an element index for el.select
InScope(dom, scope, i) == scope = 0 \/ IsAncestor(dom, scope, i)

\* select("[data-cy='<parts>']")
SelCyIs(dom, scope, parts) ==
    SortedSeq({i \in 1..Len(dom) : InScope(dom, scope, i) /\ dom[i].cy = parts})

\* select("[data-test-element='<v>']")
SelTest(dom, scope, v) ==
    SortedSeq({i \in 1..Len(dom) : InScope(dom, scope, i) /\ dom[i].test = v})

\* select(".<c>")
SelClass(dom, scope, c) ==
    SortedSeq({i \in 1..Len(dom) : InScope(dom, scope, i) /\ c \in dom[i].cls})

\* select("span")
SelSpan(dom, scope) ==
    SortedSeq({i \in 1..Len(dom) : InScope(dom, scope, i) /\ dom[i].name = "span"})

\* select(".<c> span")
SelClassSpan(dom, scope, c) ==
    SortedSeq({i \in 1..Len(dom) :
        /\ InScope(dom, scope, i) /\ dom[i].name = "span"
        /\ \E a \in 1..Len(dom) : IsAncestor(dom, a, i) /\ c \in dom[a].cls})

\* select(".review-accuracy-<color> span, [data-cy*='accuracy-<color>'] span")
SelAccuracySpan(dom, scope, color) ==
    SortedSeq({i \in 1..Len(dom) :
        /\ InScope(dom, scope, i) /\ dom[i].name = "span"
        /\ \E a \in 1..Len(dom) :
              /\ IsAncestor(dom, a, i)
              /\ \/ ("review-accuracy-" \o color) \in dom[a].cls
                 \/ CyContains2(dom[a].cy, "accuracy", color)})

\* select("[data-cy^='review-rating-']")
SelRatingCy(dom) ==
    SortedSeq({i \in 1..Len(dom) : CyStarts(dom[i].cy, <<"review", "rating">>)})

\* select("[data-cy^='review-accuracy-'], [data-cy^='game-review-accuracy-']")
SelAccuracyCy(dom) ==
    SortedSeq({i \in 1..Len(dom) :
        \/ CyStarts(dom[i].cy, <<"review", "accuracy">>)
        \/ CyStarts(dom[i].cy, <<"game", "review", "accuracy">>)})

\* select_one: the text of the first selected element, None when there is none
TextOfFirst(dom, sel) == IF sel = <<>> THEN PyNone ELSE get_text(dom, sel[1])

-----------------------------------------------------------------------------
(* parser.py *)

\* re.search of a script pattern: [found, group] of the first statement with
\* the key (the group of both patterns, (.+?), is never empty)
re_search_script(scripts, key) ==
    LET hits == {i \in 1..Len(scripts) : scripts[i].key = key /\ scripts[i].body # <<>>}
    IN  IF hits = {} THEN [found |-> FALSE, group |-> <<>>]
        ELSE [found |-> TRUE,
              group |-> scripts[CHOOSE m \in hits : \A k \in hits : m <= k].body]

\* _extract_pgn_result without the test against the four symbols
_extract_pgn_result_any(html) ==
    LET match == re_search_script(html.scripts, "pgn")
        pgn   == unicode_escape(ReplaceEscSlash(match.group))
        result_match == re_search_tag(pgn.v, "[Result", NotQuote)
    IN  IF ~match.found \/ ~pgn.ok \/ ~result_match.found THEN <<>>
        ELSE ReplaceEscSlash(Strip(result_match.group))

\* _extract_pgn_result(html): a token sequence
_extract_pgn_result(html) ==
    LET match == re_search_script(html.scripts, "pgn")
        pgn   == unicode_escape(ReplaceEscSlash(match.group))
        result_match == re_search_tag(pgn.v, "[Result", NotQuote)
        result == ReplaceEscSlash(Strip(result_match.group))
    IN  IF ~match.found THEN <<>>
        ELSE IF ~pgn.ok THEN <<>>
        ELSE IF ~result_match.found THEN <<>>
        ELSE IF result \in CanonicalResults THEN result
        ELSE <<>>

\* lines 89-95 of _extract_user_details, from the decoded text on: [exc, v]
loads_unescaped(unescaped) ==
    IF ~unescaped.ok THEN [exc |-> "UnicodeDecodeError", v |-> PyNone]
    ELSE [exc |-> "none", v |-> ValueOr(json_loads(unescaped.v), PyDict(EmptyDict))]

\* _extract_user_details(html): [exc, v]; exc is "none" or the exception raised
_extract_user_details(html) ==
    LET match == re_search_script(html.scripts, "userDetails")
    IN  IF ~match.found THEN [exc |-> "none", v |-> PyDict(EmptyDict)]
        ELSE loads_unescaped(unicode_escape(match.group))

\* <side>_details.get("username") if isinstance(<side>_details, dict) else None
details_username(details) ==
    IF details.t = "dict" THEN Get(details.v, <<"username">>, PyNone) ELSE PyNone

\* the DOM fallback looking into the other panel
dom_username_swapped(dom, username, panel) ==
    IF Truthy(username) THEN username
    ELSE LET other  == IF panel = "Top" THEN "Bottom" ELSE "Top"
             player == SelCyIs(dom, 0, <<<<"analysis">>, <<"player">>, <<other>>>>)
         IN  IF player = <<>> THEN username
             ELSE LET username_el == SelTest(dom, player[1], "user-tagline-username")
                  IN  IF username_el = <<>> THEN PyNone
                      ELSE get_text_strip(dom, username_el[1])

\* the DOM fallback of a username: panel is "Top" or "Bottom"
dom_username(dom, username, panel) ==
    IF Truthy(username) THEN username
    ELSE LET player == SelCyIs(dom, 0, <<<<"analysis">>, <<"player">>, <<panel>>>>)
         IN  IF player = <<>> THEN username
             ELSE LET username_el == SelTest(dom, player[1], "user-tagline-username")
                  IN  IF username_el = <<>> THEN PyNone
                      ELSE get_text_strip(dom, username_el[1])

\* the loop over soup.select("[data-cy^='review-rating-']"); acc = [white, black]
RECURSIVE rating_attr_loop(_, _, _)
rating_attr_loop(dom, els, acc) ==
    IF els = <<>> THEN acc
    ELSE LET el  == dom[els[1]]
             num == IntOf(el.cy[Len(el.cy)])
             nxt == IF ~num.ok THEN acc
                    ELSE IF "review-rating-white" \in el.cls
                    THEN [acc EXCEPT !.white = PyInt(num.v)]
                    ELSE IF "review-rating-black" \in el.cls
                    THEN [acc EXCEPT !.black = PyInt(num.v)]
                    ELSE acc
         IN  rating_attr_loop(dom, Tail(els), nxt)

\* the overview rows whose title contains the label, in document order
TitledRows(dom, label) ==
    SelectSeq(SelClass(dom, 0, "game-overview-row"),
              LAMBDA row :
                  LET title == SelClass(dom, row, "game-overview-row-title")
                  IN  title # <<>> /\
                      \E k \in 1..Len(get_text(dom, title[1]).v) :
                          get_text(dom, title[1]).v[k] = label)

\* the row fallback run only when both ratings are zero
rating_row_both_zero(dom, acc) ==
    IF IsZero(acc.white) /\ IsZero(acc.black)
    THEN LET rows == TitledRows(dom, "Game Rating")
         IN  IF rows = <<>> THEN acc
             ELSE [white |-> _safe_int(TextOfFirst(dom,
                                SelClassSpan(dom, rows[1], "review-rating-white"))),
                   black |-> _safe_int(TextOfFirst(dom,
                                SelClassSpan(dom, rows[1], "review-rating-black")))]
    ELSE acc

\* the "Game Rating" row fallback; acc = [white, black]
rating_row(dom, acc) ==
    IF IsZero(acc.white) \/ IsZero(acc.black)
    THEN LET rows == TitledRows(dom, "Game Rating")
         IN  IF rows = <<>> THEN acc
             ELSE LET row == rows[1]
                      w_el == SelClassSpan(dom, row, "review-rating-white")
                      b_el == SelClassSpan(dom, row, "review-rating-black")
                  IN  [white |-> IF IsZero(acc.white)
                                 THEN _safe_int(TextOfFirst(dom, w_el)) ELSE acc.white,
                       black |-> IF IsZero(acc.black)
                                 THEN _safe_int(TextOfFirst(dom, b_el)) ELSE acc.black]
    ELSE acc

\* the gameRating fallback taken whatever the rating found so far
rating_details_overwrite(rating, details) ==
    IF details.t = "dict"
    THEN PyOr(Get(details.v, <<"gameRating">>, PyNone), PyInt(0))
    ELSE rating

\* the userDetails gameRating fallback of one side
rating_details(rating, details) ==
    IF IsZero(rating) /\ details.t = "dict"
    THEN PyOr(Get(details.v, <<"gameRating">>, PyNone), PyInt(0))
    ELSE rating

\* the "Accuracy" row reading white from the second item and black from the first
accuracy_row_swapped(dom, acc) ==
    LET rows == TitledRows(dom, "Accuracy")
    IN  IF rows = <<>> THEN acc
        ELSE LET row  == rows[1]
                 w_el == SelAccuracySpan(dom, row, "white")
                 b_el == SelAccuracySpan(dom, row, "black")
                 w    == IF w_el # <<>> THEN _safe_float(get_text(dom, w_el[1])) ELSE acc.white
                 b    == IF b_el # <<>> THEN _safe_float(get_text(dom, b_el[1])) ELSE acc.black
                 items == SelClass(dom, row, "game-overview-row-item")
             IN  IF IsZero(w) /\ IsZero(b) /\ Len(items) >= 2
                 THEN [white |-> _safe_float(get_text_strip(dom, items[2])),
                       black |-> _safe_float(get_text_strip(dom, items[1]))]
                 ELSE [white |-> w, black |-> b]

\* the "Accuracy" row; acc = [white, black]
accuracy_row(dom, acc) ==
    LET rows == TitledRows(dom, "Accuracy")
    IN  IF rows = <<>> THEN acc
        ELSE LET row  == rows[1]
                 w_el == SelAccuracySpan(dom, row, "white")
                 b_el == SelAccuracySpan(dom, row, "black")
                 w    == IF w_el # <<>> THEN _safe_float(get_text(dom, w_el[1])) ELSE acc.white
                 b    == IF b_el # <<>> THEN _safe_float(get_text(dom, b_el[1])) ELSE acc.black
                 items == SelClass(dom, row, "game-overview-row-item")
             IN  IF IsZero(w) /\ IsZero(b) /\ Len(items) >= 2
                 THEN [white |-> _safe_float(get_text_strip(dom, items[1])),
                       black |-> _safe_float(get_text_strip(dom, items[2]))]
                 ELSE [white |-> w, black |-> b]

\* the loop over the accuracy data-cy elements; acc = [white, black]
RECURSIVE accuracy_attr_loop(_, _, _)
accuracy_attr_loop(dom, els, acc) ==
    IF els = <<>> THEN acc
    ELSE LET el   == dom[els[1]]
             span == SelSpan(dom, els[1])
             val0 == IF span # <<>> THEN _safe_float(get_text(dom, span[1]))
                     ELSE PyFloat(0, 0)
             num  == IntOf(el.cy[Len(el.cy)])
             val  == IF IsZero(val0) /\ CyNonEmpty(el.cy) /\ num.ok
                     THEN PyFloat(num.v, 1) ELSE val0
             nxt  == IF CyHasWord(el.cy, "white") \/ "review-accuracy-white" \in el.cls
                     THEN [acc EXCEPT !.white = val]
                     ELSE IF CyHasWord(el.cy, "black") \/ "review-accuracy-black" \in el.cls
                     THEN [acc EXCEPT !.black = val]
                     ELSE acc
         IN  accuracy_attr_loop(dom, Tail(els), nxt)

accuracy_attr(dom, acc) ==
    IF IsZero(acc.white) /\ IsZero(acc.black)
    THEN accuracy_attr_loop(dom, SelAccuracyCy(dom), acc)
    ELSE acc

tally_types ==
    <<"Brilliant", "GreatFind", "Book", "BestMove", "Excellent",
      "Good", "Inaccuracy", "Mistake", "Miss", "Blunder">>

Colors == {"white", "black"}
TallyKeys == {tally_types[i] \o "_" \o c : i \in 1..Len(tally_types), c \in Colors}

\* one entry of tallies: the count of a tally type for a color
tally(dom, tally_type, color) ==
    _safe_int(TextOfFirst(dom,
        SelCyIs(dom, 0, <<<<"game">>, <<"review">>, <<"tallies">>, <<"number">>,
                          <<tally_type>>, <<color>>>>)))

RecordKeys ==
    {"game_id", "white_username", "black_username", "white_rating", "black_rating",
     "white_accuracy", "black_accuracy", "result"} \union TallyKeys

\* the returned dict, from the values the function has collected
game_record(dom, game_id, white_username, black_username, white_rating, black_rating, accuracy, result) ==
    LET tallies == [k \in TallyKeys |->
                      LET i == CHOOSE j \in 1..Len(tally_types) :
                                   \E c \in Colors : k = tally_types[j] \o "_" \o c
                          c == CHOOSE c \in Colors : k = tally_types[i] \o "_" \o c
                      IN  tally(dom, tally_types[i], c)]
    IN  [k \in RecordKeys |->
           CASE k = "game_id" -> PyStr(game_id)
             [] k = "white_username" -> PyOr(white_username, PyStr(<<>>))
             [] k = "black_username" -> PyOr(black_username, PyStr(<<>>))
             [] k = "white_rating" -> PyOr(white_rating, PyInt(0))
             [] k = "black_rating" -> PyOr(black_rating, PyInt(0))
             [] k = "white_accuracy" -> accuracy.white
             [] k = "black_accuracy" -> accuracy.black
             [] k = "result" -> PyStr(result)
             [] OTHER -> tallies[k]]

\* the ratings of both colors and the rest of the function, from the ratings
\* the "Game Rating" row step leaves
parse_ratings(html, game_id, white_details, black_details, row) ==
    game_record(html.dom, game_id,
                dom_username(html.dom, details_username(white_details), "Top"),
                dom_username(html.dom, details_username(black_details), "Bottom"),
                rating_details(row.white, white_details),
                rating_details(row.black, black_details),
                accuracy_attr(html.dom,
                              accuracy_row(html.dom, [white |-> PyFloat(0, 0),
                                                      black |-> PyFloat(0, 0)])),
                _extract_pgn_result(html))

\* the function from line 106 on, given what _extract_user_details returned
parse_details(html, game_id, user_details) ==
    IF user_details.exc # "none"
    THEN [status |-> "raised", exc |-> user_details.exc, value |-> EmptyDict]
    ELSE IF user_details.v.t # "dict"          \* user_details.get: no such attribute
    THEN [status |-> "raised", exc |-> "AttributeError", value |-> EmptyDict]
    ELSE [status |-> "returned", exc |-> "none",
          value |-> parse_ratings(html, game_id,
                       Get(user_details.v.v, <<"white">>, PyDict(EmptyDict)),
                       Get(user_details.v.v, <<"black">>, PyDict(EmptyDict)),
                       rating_row(html.dom,
                           rating_attr_loop(html.dom, SelRatingCy(html.dom),
                                            [white |-> PyInt(0), black |-> PyInt(0)])))]

\* parse_game_review_page(html, game_id): [status, exc, value]
parse_game_review_page(html, game_id) ==
    parse_details(html, game_id, _extract_user_details(html))

-----------------------------------------------------------------------------
(* database.py *)

\* the columns insert_game names, in order
columns ==
    <<"game_id", "white_username", "black_username", "white_rating", "black_rating",
      "brilliant_white", "brilliant_black", "great_white", "great_black",
      "book_white", "book_black", "best_white", "best_black",
      "excellent_white", "excellent_black", "good_white", "good_black",
      "inaccuracy_white", "inaccuracy_black", "mistake_white", "mistake_black",
      "miss_white", "miss_black", "blunder_white", "blunder_black",
      "accuracy_white", "accuracy_black", "result">>

\* the key of data bound to each column, in the order of columns
column_keys ==
    <<"game_id", "white_username", "black_username", "white_rating", "black_rating",
      "Brilliant_white", "Brilliant_black", "GreatFind_white", "GreatFind_black",
      "Book_white", "Book_black", "BestMove_white", "BestMove_black",
      "Excellent_white", "Excellent_black", "Good_white", "Good_black",
      "Inaccuracy_white", "Inaccuracy_black", "Mistake_white", "Mistake_black",
      "Miss_white", "Miss_black", "Blunder_white", "Blunder_black",
      "white_accuracy", "black_accuracy", "result">>

\* the default insert_game passes to data.get for the i-th column
column_default(i) ==
    IF i \in {1, 2, 3, 28} THEN PyStr(<<>>)
    ELSE IF i \in {26, 27} THEN PyFloat(0, 0)
    ELSE PyInt(0)

ColumnSet == {columns[i] : i \in 1..Len(columns)}
ColumnIndex(c) == CHOOSE i \in 1..Len(columns) : columns[i] = c

\* the values insert_game binds, as a row of the table
bound_row(data) ==
    [c \in ColumnSet |->
        Get(data, column_keys[ColumnIndex(c)], column_default(ColumnIndex(c)))]

\* INSERT OR IGNORE in place of INSERT OR REPLACE: a stored game is kept
insert_game_ignore(table, data) ==
    LET row == bound_row(data)
    IN  IF \E i \in 1..Len(table) : table[i]["game_id"] = row["game_id"]
        THEN table
        ELSE table \o <<row>>

\* INSERT OR REPLACE INTO games: the row holding the same primary key is
\* deleted, then the new row is stored
insert_game(table, data) ==
    LET row == bound_row(data)
    IN  SelectSeq(table, LAMBDA r : r["game_id"] # row["game_id"]) \o <<row>>

-----------------------------------------------------------------------------
(* Bounds *)

MaxInserts == 3      \* insert_game calls in one run
NumGameIds == 2      \* distinct game identifiers
MaxFrags == 2        \* page fragments of one kind in a page
MaxLen == 3          \* length of the enumerated short texts

-----------------------------------------------------------------------------
(* Inputs: texts *)

\* all sequences over A of length at most n
Seqs(A, n) == UNION {[1..k -> A] : k \in 0..n}

GameIds == {<<"g", CodeChar(48 + i)>> : i \in 1..NumGameIds}

EscapedDraw == <<"1", "\\", "/", "2", "-", "1", "\\", "/", "2">>

\* values of a Result tag
ResultValues ==
    CanonicalResults
    \union { EscapedDraw, <<"2", "-", "0">>, <<"1", "-", "0", "\n">>,
             <<"1", "\\", "x", "2", "d", "0">>, <<"\\", "6", "1", "-", "0">>,
             <<" ", "1", "/", "2", "-", "1", "/", "2">>,
             <<"1", "\\", "\\", "/", "2", "-", "1", "\\", "\\", "/", "2">> }
    \union Seqs({"1", "0", "-", "*", " ", "\\"}, MaxLen)

ResultTag(v) == <<"[Result", " ", "\"">> \o v \o <<"\"", "]">>
EloTag(tag, v) == <<tag, " ", "\"">> \o v \o <<"\"", "]", "\n">>

\* bodies of the page's pgn statement
PgnBodies ==
    {ResultTag(v) : v \in ResultValues}
    \union {<<"[Event", " ", "\"", "?", "\"", "]", "\\", "n">> \o ResultTag(v)
            \o <<"\\", "n", "1", ".", " ", "e4">> : v \in CanonicalResults \union {EscapedDraw}}
    \union {ResultTag(v) \o <<" ", "\\", "x">> : v \in CanonicalResults}
    \union {ResultTag(v) \o <<"\\">> : v \in CanonicalResults}
    \union {<<"[Result", "\\", "\"">> \o v \o <<"\\", "\"", "]">> : v \in CanonicalResults}
    \union {<<"[Result", " ", "\\", "\"">> \o v \o <<"\\", "\"", "]">> : v \in CanonicalResults}
    \union {ResultTag(v) \o ResultTag(w) :
                v \in {<<"2", "-", "0">>, <<"*">>, <<>>}, w \in {<<"1", "-", "0">>, <<"0">>}}
    \union {<<"1", ".", " ", "e4">>, <<"[Result", "]">>, <<"[Event", " ", "\"", "1", "-", "0", "\"", "]">>}

\* values of an Elo tag; NoTag: the tag is absent
NoTag == <<"<absent>">>
EloValues ==
    { NoTag, <<"1", "2", "0", "0">>, <<"1", "1", "5", "0">>, <<"1", "2", "a">> }
    \union Seqs({"7", "-", " "}, MaxLen - 1)

EloPart(tag, v) == IF v = NoTag THEN <<>> ELSE EloTag(tag, v)

\* inputs of parse_pgn_text
PgnTexts ==
    {ResultTag(v) \o <<"\n">> : v \in ResultValues}
    \union {r \o EloPart("[WhiteElo", w) \o EloPart("[BlackElo", b) \o <<"\n", "1", ".", " ", "e4">> :
                r \in {<<>>, ResultTag(<<"1", "-", "0">>) \o <<"\n">>},
                w \in EloValues, b \in EloValues}
    \union {EloTag("[WhiteElo", <<"a">>) \o EloTag("[WhiteElo", <<"9">>),
            <<"[WhiteElo", "\"", "9", "\"", "]">>,
            ResultTag(<<"2", "-", "0">>) \o ResultTag(<<"1", "-", "0">>)}

\* texts of rating and tally elements
NumTexts ==
    { <<"3">>, <<"-", "5">>, <<" ", "2", "\n">>, <<"x">>, <<>>, <<"+", "4">>, <<"1", "2">> }

-----------------------------------------------------------------------------
(* Inputs: userDetails blobs (the text inside JSON.parse("...")) *)

Q == <<"\\", "\"">>                        \* an escaped quote
JS(w) == Q \o w \o Q                       \* an escaped JSON string

Absent == <<"<absent>">>                   \* the member is not in the object

Member(key, val) == IF val = Absent THEN <<>> ELSE <<JS(<<key>>) \o <<":">> \o val>>

RECURSIVE JoinComma(_)
JoinComma(ms) ==
    IF ms = <<>> THEN <<>>
    ELSE IF Len(ms) = 1 THEN ms[1]
    ELSE ms[1] \o <<",">> \o JoinComma(Tail(ms))

Object(ms) == <<"{">> \o JoinComma(ms) \o <<"}">>

SideObject(username, gameRating) ==
    Object(Member("username", username) \o Member("gameRating", gameRating))

Blob(white, black) == Object(Member("white", white) \o Member("black", black))

UsernameVals == {Absent, <<"null">>, JS(<<>>), JS(<<"alice">>)}
RatingVals == {Absent, <<"null">>, <<"0">>, <<"8", "4", "1">>, <<"-", "5">>}

\* blobs that are no JSON object, or no JSON, or no valid escaped text
OddBlobs ==
    { <<"[", "1", ",", "2", "]">>, <<"5">>, <<"null">>, JS(<<"alice">>),
      <<"{", "bad">>, <<"{">> \o JS(<<"white">>) \o <<":">>,
      <<"\\", "x">>, <<"{", "}", "\\">>, <<"\\", "x", "2", "0">>, <<"{", "}", " ">> }

UserBlobs ==
    {Blob(w, b) :
        w \in {Absent, <<"null">>, JS(<<"w">>)}
              \union {SideObject(u, <<"8", "4", "1">>) : u \in UsernameVals},
        b \in {Absent, SideObject(Absent, Absent), SideObject(JS(<<"bob">>), Absent)}}
    \union OddBlobs

RatingBlobs ==
    {Blob(w, SideObject(JS(<<"bob">>), <<"8", "7", "7">>)) :
        w \in {<<"null">>} \union {SideObject(JS(<<"alice">>), r) : r \in RatingVals}}
    \union {Blob(SideObject(Absent, <<"8", "4", "1">>), Absent),
            <<"[", "1", ",", "2", "]">>, <<"\\", "x">>, <<"{", "bad">>}

Script(key, body) == [key |-> key, body |-> body]

\* the script statements of a page carrying the blob, if any
BlobScripts(blob) == IF blob = Absent THEN <<>> ELSE <<Script("userDetails", blob)>>

-----------------------------------------------------------------------------
(* Inputs: page fragments.  A fragment is a sequence of elements whose      *)
(* parent indices are local to the fragment.                                *)

RECURSIVE Dom(_)
\* the document made of the fragments, in order
Dom(frags) ==
    IF frags = <<>> THEN <<>>
    ELSE LET rest == Dom(SubSeq(frags, 1, Len(frags) - 1))
             last == frags[Len(frags)]
         IN  rest \o [i \in 1..Len(last) |->
                        [last[i] EXCEPT !.parent = IF @ = 0 THEN 0 ELSE @ + Len(rest)]]

Div(parent, cy, cls, text) == Node(parent, "div", cy, cls, "", text)
Span(parent, text) == Node(parent, "span", NoCy, {}, "", text)

\* <div data-cy="analysis-player-<panel>"> with its username element, if any
Panel(panel, username) ==
    <<Div(0, <<<<"analysis">>, <<"player">>, <<panel>>>>, {}, <<>>)>>
    \o (IF username = Absent THEN <<>>
        ELSE <<Node(1, "div", NoCy, {}, "user-tagline-username", username)>>)

PanelVocab ==
    { Panel("Top", <<" ", "wp", "\n">>), Panel("Top", Absent), Panel("Top", <<" ">>),
      Panel("Bottom", <<"bp">>), Panel("Bottom", Absent) }

\* <div data-cy="review-rating-<last>" class="...">
RatingAttr(cls, last) == <<Div(0, <<<<"review">>, <<"rating">>, last>>, cls, <<>>)>>

RatingAttrVocab ==
    { RatingAttr({"review-rating-component", "review-rating-white"}, <<"1", "3", "0", "0">>),
      RatingAttr({"review-rating-component", "review-rating-black"}, <<"1", "4", "5", "0">>),
      RatingAttr({"review-rating-white"}, <<"0">>),
      RatingAttr({"review-rating-black"}, <<"white">>),
      RatingAttr({"review-rating-white", "review-rating-black"}, <<"1", "5", "0", "0">>) }

\* an item of an overview row: its own text, the class and data-cy of the
\* color element inside it (none when both are empty) and the span text inside
Item(text, cls, cy, span) == [text |-> text, cls |-> cls, cy |-> cy, span |-> span]

ItemNodes(item, at) ==
    LET colored == item.cls # {} \/ item.cy # NoCy
    IN  <<Div(1, NoCy, {"game-overview-row-item"}, item.text)>>
        \o (IF colored THEN <<Div(at, item.cy, item.cls, <<>>)>> ELSE <<>>)
        \o (IF item.span = Absent THEN <<>>
            ELSE <<Span(IF colored THEN at + 1 ELSE at, item.span)>>)

RECURSIVE RowNodes(_, _)
RowNodes(items, acc) ==
    IF items = <<>> THEN acc
    ELSE RowNodes(Tail(items), acc \o ItemNodes(items[1], Len(acc) + 1))

\* <div class="game-overview-row"> with its title and items
Row(title, items) ==
    RowNodes(items, <<Div(0, NoCy, {"game-overview-row"}, <<>>),
                      Node(1, "span", NoCy, {"game-overview-row-title"}, "", title)>>)

RatingItem(color, span) ==
    Item(<<>>, {"review-rating-component", "review-rating-" \o color}, NoCy, span)

RatingRowSeqs ==
    LET r1 == Row(<<"Game Rating">>, <<RatingItem("white", <<"1", "2", "0", "0">>),
                                       RatingItem("black", <<"1", "1", "0", "0">>)>>)
        r2 == Row(<<" ", "Game Rating", "\n">>, <<RatingItem("white", <<"-", "5">>),
                                                 RatingItem("black", Absent)>>)
        r3 == Row(<<"Game Rating">>, <<RatingItem("white", <<"x">>),
                                       RatingItem("black", <<" ", "7">>)>>)
        r4 == Row(<<"Points">>, <<RatingItem("white", <<"9", "9", "9">>),
                                  RatingItem("black", <<"9", "9", "8">>)>>)
    IN  {<<>>, <<r1>>, <<r2>>, <<r3>>, <<r4, r1>>}

AccuracyItem(color, span) == Item(<<>>, {"review-accuracy-" \o color}, NoCy, span)
PlainItem(text) == Item(text, {}, NoCy, Absent)

AccuracyRowSeqs ==
    LET a1 == Row(<<"Accuracy">>, <<AccuracyItem("white", <<"7", "6", ".", "6">>),
                                    AccuracyItem("black", <<"8", "1", ".", "5">>)>>)
        a2 == Row(<<"Accuracy">>, <<PlainItem(<<"7", "0", ".", "0">>),
                                    PlainItem(<<" ", "9", "0", ".", "0", "\n">>)>>)
        a3 == Row(<<"Accuracy">>, <<PlainItem(<<"0">>), PlainItem(<<"0", ".", "0">>)>>)
        a4 == Row(<<"Accuracy">>, <<AccuracyItem("white", <<"7", "6", ".", "6">>),
                                    PlainItem(<<"9", "0", ".", "0">>)>>)
        a5 == Row(<<"Accuracy">>, <<Item(<<"5", "5", ".">>, {"review-accuracy-white"}, NoCy, <<"0">>),
                                    Item(<<"6">>, {"review-accuracy-black"}, NoCy, <<"x">>)>>)
        a6 == Row(<<"Accuracy">>, <<PlainItem(<<"7", "0", ".", "0">>)>>)
        a7 == Row(<<"Accuracy">>, <<PlainItem(<<"x">>), PlainItem(<<"2">>), PlainItem(<<"3">>)>>)
        a8 == Row(<<"Accuracy">>, <<Item(<<>>, {}, <<<<"game">>, <<"accuracy">>, <<"white">>>>, <<"7", "1">>),
                                    AccuracyItem("black", <<"0">>)>>)
        a9 == Row(<<"Points">>, <<AccuracyItem("white", <<"1", "1">>),
                                  AccuracyItem("black", <<"2", "2">>)>>)
        a10 == Row(<<"Accuracy">>, <<PlainItem(<<"0">>), PlainItem(<<"8", "8">>)>>)
    IN  {<<>>, <<a1>>, <<a2>>, <<a3>>, <<a4>>, <<a5>>, <<a6>>, <<a7>>, <<a8>>, <<a9>>, <<a10>>,
         <<a9, a2>>, <<a3, a1>>, <<a6, a2>>}

\* an element carrying an accuracy data-cy, with the span inside it, if any
AccuracyAttr(cy, cls, span) ==
    <<Div(0, cy, cls, <<>>)>> \o (IF span = Absent THEN <<>> ELSE <<Span(1, span)>>)

AccuracyAttrVocab ==
    { AccuracyAttr(<<<<"review">>, <<"accuracy">>, <<"white">>, <<"7", "6", "6">>>>, {}, Absent),
      AccuracyAttr(<<<<"review">>, <<"accuracy">>, <<"8", "1", "5">>>>,
                   {"review-accuracy-black"}, <<"8", "1", ".", "5">>),
      AccuracyAttr(<<<<"game">>, <<"review">>, <<"accuracy">>, <<"black">>, <<"x">>>>, {}, <<"x">>),
      AccuracyAttr(<<<<"review">>, <<"accuracy">>, <<"5">>>>, {}, Absent) }

\* <div data-cy="game-review-tallies-number-<type>-<color>">text</div>
Tally(type, color, text) ==
    <<Div(0, <<<<"game">>, <<"review">>, <<"tallies">>, <<"number">>, <<type>>, <<color>>>>,
          {}, text)>>

TallyVocab ==
    { Tally("Brilliant", "white", <<"3">>), Tally("Brilliant", "white", <<"-", "5">>),
      Tally("Brilliant", "black", <<" ", "2", "\n">>), Tally("Blunder", "white", <<"x">>),
      Tally("Blunder", "black", <<"7">>), Tally("Book", "white", <<>>) }

\* elements no selector of the parser matches
NoiseVocab ==
    { <<Div(0, <<<<"analysis">>, <<"player">>, <<"Left">>>>, {}, <<"wp">>)>>,
      <<Div(0, NoCy, {"board"}, <<"1", "2">>), Span(1, <<"7", "6", ".", "6">>)>>,
      <<Div(0, <<<<"review">>, <<"ratings">>, <<"5">>>>, {"rating"}, <<"5">>)>>,
      <<Div(0, <<<<"game">>, <<"review">>, <<"tallies">>, <<"number">>, <<"Brilliant">>>>, {}, <<"4">>)>>,
      <<Div(0, <<<<"game">>, <<"review">>, <<"tallies">>, <<"number">>, <<"Best">>, <<"white">>>>, {}, <<"4">>)>> }

Page(frags, scripts) == [dom |-> Dom(frags), scripts |-> scripts]

EmptyPage == Page(<<>>, <<>>)

\* a complete review page: panels, all tallies, both rows and the pgn
SamplePage ==
    Page(<<Panel("Top", <<"white_player">>), Panel("Bottom", <<"black_player">>)>>
         \o [i \in 1..(2 * Len(tally_types)) |->
               Tally(tally_types[(i + 1) \div 2],
                     IF i % 2 = 1 THEN "white" ELSE "black",
                     <<CodeChar(48 + (i % 10))>>)]
         \o <<Row(<<"Accuracy">>, <<AccuracyItem("white", <<"7", "6", ".", "6">>),
                                    AccuracyItem("black", <<"8", "1", ".", "5">>)>>),
              Row(<<"Game Rating">>, <<RatingItem("white", <<"1", "3", "0", "0">>),
                                       RatingItem("black", <<"1", "4", "5", "0">>)>>)>>,
         <<Script("pgn", ResultTag(<<"0", "-", "1">>))>>)

UserPages ==
    {Page(f, BlobScripts(b)) : f \in Seqs(PanelVocab, MaxFrags), b \in UserBlobs \union {Absent}}

RatingPages ==
    {Page(f \o r, BlobScripts(b)) :
        f \in Seqs(RatingAttrVocab, MaxFrags), r \in RatingRowSeqs,
        b \in RatingBlobs \union {Absent}}

AccuracyPages ==
    {Page(r \o f, <<>>) : r \in AccuracyRowSeqs, f \in Seqs(AccuracyAttrVocab, MaxFrags)}

TallyPages ==
    {Page(<<Tally(tally_types[i], c, t)>>, <<>>) :
        i \in 1..Len(tally_types), c \in Colors, t \in NumTexts}
    \union {Page(f, <<>>) : f \in Seqs(TallyVocab, MaxFrags)}

ResultPages ==
    {Page(<<>>, <<Script("pgn", b)>>) : b \in PgnBodies}
    \union {Page(<<>>, <<Script("pgn", ResultTag(v)), Script("pgn", ResultTag(w))>>) :
                v \in {<<>>, <<"2", "-", "0">>}, w \in {<<"1", "-", "0">>}}
    \union {Page(<<>>, <<Script("other", ResultTag(<<"1", "-", "0">>)),
                         Script("pgn", ResultTag(<<"0", "-", "1">>))>>)}

NoisePages ==
    {Page(f, s) : f \in Seqs(NoiseVocab, MaxFrags),
                  s \in {<<>>, <<Script("other", ResultTag(<<"1", "-", "0">>))>>}}

Pages ==
    UserPages \union RatingPages \union AccuracyPages \union TallyPages
    \union ResultPages \union NoisePages \union {SamplePage}

-----------------------------------------------------------------------------
(* Inputs: the dicts handed to insert_game *)

Restrict(f, keys) == [k \in DOMAIN f \intersect keys |-> f[k]]

GameData(id, wu, bu, wr, br, wa, ba, bw, bb, res) ==
    [k \in RecordKeys |->
        CASE k = "game_id" -> PyStr(id)
          [] k = "white_username" -> PyStr(wu)
          [] k = "black_username" -> PyStr(bu)
          [] k = "white_rating" -> PyInt(wr)
          [] k = "black_rating" -> PyInt(br)
          [] k = "white_accuracy" -> PyFloat(wa, 1)
          [] k = "black_accuracy" -> PyFloat(ba, 1)
          [] k = "Brilliant_white" -> PyInt(bw)
          [] k = "Brilliant_black" -> PyInt(bb)
          [] k = "result" -> PyStr(res)
          [] OTHER -> PyInt(1)]

DataSet ==
    LET a(id) == GameData(id, <<"alice">>, <<"bob">>, 1300, 1450, 766, 815, 0, 1,
                          <<"0", "-", "1">>)
        b(id) == GameData(id, <<"bob">>, <<"alice">>, 1400, 1350, 700, 900, 2, 0,
                          <<"1", "-", "0">>)
    IN  UNION {{ a(id), b(id),
                 Restrict(b(id), {"game_id", "white_username", "black_username"}),
                 Restrict(a(id), RecordKeys \ {"Brilliant_black", "white_accuracy",
                                               "black_rating", "result"}) }
               : id \in GameIds}
        \union {Restrict(a(<<>>), RecordKeys \ {"game_id", "black_username"})}

-----------------------------------------------------------------------------
(* The games table under insert_game *)

NoCall == [fn |-> "none", html |-> EmptyPage, game_id |-> <<>>, pgn |-> <<>>]
Pending == [status |-> "pending", exc |-> "none", value |-> EmptyDict]

Init ==
    /\ games = <<>>
    /\ inserted = <<>>
    /\ call = NoCall
    /\ ret = Pending

InsertGame(data) ==
    /\ Len(inserted) < MaxInserts
    /\ games' = insert_game(games, data)
    /\ inserted' = Append(inserted, data)
    /\ UNCHANGED <<call, ret>>

Next == \E data \in DataSet : InsertGame(data)

Spec == Init /\ [][Next]_vars

-----------------------------------------------------------------------------
(* The extractor applied to one input *)

\* a live-game id and a PGN code
CallIds == {<<"1", "6", "5">>, <<"1", "c", "d", "-", "0", "8">>}

Calls ==
    {[fn |-> "parse_game_review_page", html |-> h, game_id |-> g, pgn |-> <<>>] :
        h \in Pages, g \in CallIds}
    \union {[fn |-> "parse_pgn_text", html |-> EmptyPage, game_id |-> <<>>, pgn |-> t] :
        t \in PgnTexts}

InitExtract ==
    /\ games = <<>>
    /\ inserted = <<>>
    /\ call \in Calls
    /\ ret = Pending

ParseGameReviewPage ==
    /\ call.fn = "parse_game_review_page"
    /\ ret.status = "pending"
    /\ ret' = parse_game_review_page(call.html, call.game_id)
    /\ UNCHANGED <<games, inserted, call>>

ParsePgnText ==
    /\ call.fn = "parse_pgn_text"
    /\ ret.status = "pending"
    /\ ret' = [status |-> "returned", exc |-> "none", value |-> parse_pgn_text(call.pgn)]
    /\ UNCHANGED <<games, inserted, call>>

NextExtract == ParseGameReviewPage \/ ParsePgnText

SpecExtract == InitExtract /\ [][NextExtract]_vars

-----------------------------------------------------------------------------
(* Claims about the games table *)

\* the record field each column stores
FieldOfColumn ==
    [c \in ColumnSet |->
        CASE c \in {"game_id", "white_username", "black_username",
                    "white_rating", "black_rating", "result"} -> c
          [] c = "accuracy_white" -> "white_accuracy"
          [] c = "accuracy_black" -> "black_accuracy"
          [] c \in {"brilliant_white", "brilliant_black"} -> "Brilliant"
          [] c \in {"great_white", "great_black"} -> "GreatFind"
          [] c \in {"book_white", "book_black"} -> "Book"
          [] c \in {"best_white", "best_black"} -> "BestMove"
          [] c \in {"excellent_white", "excellent_black"} -> "Excellent"
          [] c \in {"good_white", "good_black"} -> "Good"
          [] c \in {"inaccuracy_white", "inaccuracy_black"} -> "Inaccuracy"
          [] c \in {"mistake_white", "mistake_black"} -> "Mistake"
          [] c \in {"miss_white", "miss_black"} -> "Miss"
          [] c \in {"blunder_white", "blunder_black"} -> "Blunder"]

WhiteTallyColumns ==
    {"brilliant_white", "great_white", "book_white", "best_white", "excellent_white",
     "good_white", "inaccuracy_white", "mistake_white", "miss_white", "blunder_white"}
BlackTallyColumns ==
    {"brilliant_black", "great_black", "book_black", "best_black", "excellent_black",
     "good_black", "inaccuracy_black", "mistake_black", "miss_black", "blunder_black"}

\* the value a column of the stored row must hold for the record
ExpectedColumn ==
    [c \in ColumnSet |->
        [key |-> IF c \in WhiteTallyColumns THEN FieldOfColumn[c] \o "_white"
                 ELSE IF c \in BlackTallyColumns THEN FieldOfColumn[c] \o "_black"
                 ELSE FieldOfColumn[c],
         default |-> IF c \in {"game_id", "white_username", "black_username", "result"}
                     THEN PyStr(<<>>)
                     ELSE IF c \in {"accuracy_white", "accuracy_black"} THEN PyFloat(0, 0)
                     ELSE PyInt(0)]]

IdOf(data) == IF "game_id" \in DOMAIN data THEN data["game_id"] ELSE PyStr(<<>>)

\* the last record inserted for an id
LatestFor(id) ==
    inserted[CHOOSE i \in 1..Len(inserted) :
                /\ IdOf(inserted[i]) = id
                /\ \A j \in (i + 1)..Len(inserted) : IdOf(inserted[j]) # id]

C1_TableInv ==
    LET ids == {IdOf(inserted[i]) : i \in 1..Len(inserted)}
    IN  /\ Len(games) = Cardinality(ids)
        /\ \A id \in ids :
              \E r \in 1..Len(games) :
                 /\ games[r]["game_id"] = id
                 /\ \A q \in 1..Len(games) : games[q]["game_id"] = id => q = r
                 /\ DOMAIN games[r] = ColumnSet
                 /\ \A c \in ColumnSet :
                       games[r][c] = IF ExpectedColumn[c].key \in DOMAIN LatestFor(id)
                                     THEN LatestFor(id)[ExpectedColumn[c].key]
                                     ELSE ExpectedColumn[c].default

C1_OthersKept ==
    Len(inserted') = Len(inserted) + 1 =>
        \A r \in 1..Len(games) :
            games[r]["game_id"] # IdOf(inserted'[Len(inserted')]) =>
                \E q \in 1..Len(games') : games'[q] = games[r]

\* C1: after any sequence of insert_game calls the table holds exactly one row
\* per game_id ever inserted, that row equals the latest record inserted for
\* the id in every column (a field the latest record lacks takes its default),
\* and an insert leaves the rows of all other ids as they were.
C1_InsertOrReplace == [](C1_TableInv) /\ [][C1_OthersKept]_vars

\* a game re-inserted with a record lacking fields the replaced row had, next
\* to the row of another game
C1_Witness ==
    /\ Len(inserted) = 3 /\ Len(games) = 2
    /\ IdOf(inserted[1]) = IdOf(inserted[3])
    /\ IdOf(inserted[2]) # IdOf(inserted[1])
    /\ "result" \in DOMAIN inserted[1] /\ "result" \notin DOMAIN inserted[3]
    /\ inserted[1]["result"] # PyStr(<<>>)

-----------------------------------------------------------------------------
(* Claims about parse_game_review_page *)

PageCalled == call.fn = "parse_game_review_page" /\ ret.status # "pending"
PageReturned == call.fn = "parse_game_review_page" /\ ret.status = "returned"

\* the userDetails blob of the called page: [found, group]
CalledBlob == re_search_script(call.html.scripts, "userDetails")

\* C2: parse_game_review_page never raises: also with a userDetails blob that
\* holds an invalid escape, is no JSON or is no JSON object, the call returns
\* a complete record.
C2_NeverRaises ==
    PageCalled => ret.status = "returned" /\ DOMAIN ret.value = RecordKeys

RatingKeys == {"white_rating", "black_rating"}

\* C10: in every returned record both ratings and the twenty tally counts
\* are integers that are not negative.
C10_NonNegative ==
    PageReturned =>
        \A k \in RatingKeys \union TallyKeys :
            ret.value[k].t = "int" /\ ret.value[k].v >= 0

\* no selector and no script pattern of the parser occurs in the page
Unrecognized(html) ==
    /\ \A i \in 1..Len(html.scripts) : html.scripts[i].key \notin {"pgn", "userDetails"}
    /\ \A i \in 1..Len(html.dom) :
          LET el == html.dom[i]
          IN  /\ el.test # "user-tagline-username"
              /\ el.cls \intersect {"game-overview-row", "game-overview-row-title",
                                    "game-overview-row-item", "review-rating-white",
                                    "review-rating-black", "review-accuracy-white",
                                    "review-accuracy-black"} = {}
              /\ el.cy \notin {<<<<"analysis">>, <<"player">>, <<p>>>> : p \in {"Top", "Bottom"}}
              /\ ~(Len(el.cy) >= 3 /\ el.cy[1] = <<"review">>
                     /\ el.cy[2] \in {<<"rating">>, <<"accuracy">>})
              /\ ~(Len(el.cy) >= 4 /\ el.cy[1] = <<"game">> /\ el.cy[2] = <<"review">>
                     /\ el.cy[3] = <<"accuracy">>)
              /\ ~(\E i2 \in 1..Len(tally_types), c \in Colors :
                     el.cy = <<<<"game">>, <<"review">>, <<"tallies">>, <<"number">>,
                               <<tally_types[i2]>>, <<c>>>>)

\* C4: for markup without any recognized selector or script pattern the call
\* returns the given game_id, empty usernames, ratings 0, accuracies 0.0,
\* twenty tallies 0 and an empty result.
C4_Defaults ==
    (PageCalled /\ Unrecognized(call.html)) =>
        /\ ret.status = "returned"
        /\ DOMAIN ret.value = RecordKeys
        /\ \A k \in RecordKeys :
              ret.value[k] =
                 CASE k = "game_id" -> PyStr(call.game_id)
                   [] k \in {"white_username", "black_username", "result"} -> PyStr(<<>>)
                   [] k \in {"white_accuracy", "black_accuracy"} -> PyFloat(0, 0)
                   [] OTHER -> PyInt(0)

\* a parsed page with elements and script text, none of them recognized
C4_Witness ==
    /\ PageReturned /\ Unrecognized(call.html)
    /\ Len(call.html.dom) >= 3 /\ call.html.scripts # <<>>
    /\ \E i \in 1..Len(call.html.dom) : call.html.dom[i].text # <<>>
    /\ ret.value["game_id"] = PyStr(call.game_id)

\* the pgn string the called page embeds, decoded: [found, ok, v]
CalledPgn ==
    LET m == re_search_script(call.html.scripts, "pgn")
        d == unicode_escape(ReplaceEscSlash(m.group))
    IN  [found |-> m.found, ok |-> m.found /\ d.ok, v |-> IF m.found /\ d.ok THEN d.v ELSE <<>>]

\* the value of the first Result tag of a pgn text: [found, group]
ResultTagOf(pgn) == re_search_tag(pgn, "[Result", NotQuote)

\* the result a tag value stands for when the value is taken as it is found
\* (only \/ is read as /), and when it is trimmed first
ResultAsFound(tag) ==
    IF tag.found /\ ReplaceEscSlash(tag.group) \in CanonicalResults
    THEN ReplaceEscSlash(tag.group) ELSE <<>>
ResultTrimmed(tag) ==
    IF tag.found /\ ReplaceEscSlash(Strip(tag.group)) \in CanonicalResults
    THEN ReplaceEscSlash(Strip(tag.group)) ELSE <<>>

PgnReturned == call.fn = "parse_pgn_text" /\ ret.status = "returned"

\* the integer of the first tag of the pgn whose value is a run of digits, 0 if none
EloOf(pgn, tag) ==
    LET m == re_search_tag(pgn, tag, IsDigit)
    IN  IF m.found THEN PyInt(DigitsValue(m.group)) ELSE PyInt(0)

\* the value of the first tag of the pgn, whatever it holds: [found, group]
FirstTagOf(pgn, tag) == re_search_tag(pgn, tag, NotQuote)

\* C9 as stated: parse_pgn_text returns the keys result, white_rating and
\* black_rating; result is the Result tag value if it is one of the four
\* symbols and empty otherwise; the ratings are the integers of the WhiteElo
\* and BlackElo tags, 0 when the tag is absent or its value is not numeric.
C9_AsFound ==
    PgnReturned =>
        /\ DOMAIN ret.value = {"result", "white_rating", "black_rating"}
        /\ ret.value["result"] =
              PyStr(IF ResultTagOf(call.pgn).found
                       /\ ResultTagOf(call.pgn).group \in CanonicalResults
                    THEN ResultTagOf(call.pgn).group ELSE <<>>)
        /\ \A side \in {<<"white_rating", "[WhiteElo">>, <<"black_rating", "[BlackElo">>} :
              ret.value[side[1]] =
                 PyInt(IF FirstTagOf(call.pgn, side[2]).found
                          /\ AllDigits(FirstTagOf(call.pgn, side[2]).group)
                       THEN DigitsValue(FirstTagOf(call.pgn, side[2]).group) ELSE 0)

\* C9 amended: parse_pgn_text returns the keys result, white_rating and
\* black_rating; result is the first Result tag value, trimmed and with \/
\* read as /, if that is one of the four symbols, and empty otherwise; each
\* rating is the integer of the first WhiteElo / BlackElo tag whose value is a
\* run of digits, 0 when there is no such tag.
C9_Normalized ==
    PgnReturned =>
        /\ DOMAIN ret.value = {"result", "white_rating", "black_rating"}
        /\ ret.value["result"] = PyStr(ResultTrimmed(ResultTagOf(call.pgn)))
        /\ ret.value["white_rating"] = EloOf(call.pgn, "[WhiteElo")
        /\ ret.value["black_rating"] = EloOf(call.pgn, "[BlackElo")

\* the PGN of the round-trip example: Result 1-0, WhiteElo 1200, BlackElo 1150
C9_Witness ==
    /\ PgnReturned
    /\ ResultTagOf(call.pgn).group = <<"1", "-", "0">>
    /\ FirstTagOf(call.pgn, "[WhiteElo").group = <<"1", "2", "0", "0">>
    /\ FirstTagOf(call.pgn, "[BlackElo").group = <<"1", "1", "5", "0">>
    /\ ret.value["result"] = PyStr(<<"1", "-", "0">>)
    /\ ret.value["white_rating"] = PyInt(1200)
    /\ ret.value["black_rating"] = PyInt(1150)

-----------------------------------------------------------------------------
(* Claims about ratings, accuracies and usernames of a returned record *)

\* the userDetails object of the called page, {} when there is no blob or the
\* blob is no JSON
CalledDetails ==
    LET text == unicode_escape(CalledBlob.group)
        json == json_loads(text.v)
    IN  IF CalledBlob.found /\ text.ok /\ json.ok THEN json.v ELSE PyDict(EmptyDict)

\* the member of a side's userDetails entry, None when the entry or the member is missing
DetailsMember(color, member) ==
    IF CalledDetails.t = "dict" /\ <<color>> \in DOMAIN CalledDetails.v
       /\ CalledDetails.v[<<color>>].t = "dict"
       /\ <<member>> \in DOMAIN CalledDetails.v[<<color>>].v
    THEN CalledDetails.v[<<color>>].v[<<member>>]
    ELSE PyNone

Max(S) == CHOOSE x \in S : \A y \in S : y <= x
First(S) == CHOOSE x \in S : \A y \in S : x <= y

\* the elements of the called page that encode a rating of the color in
\* their data-cy (an element of both color classes counts for white)
RatingElements(color) ==
    LET dom == call.html.dom
    IN  {i \in 1..Len(dom) :
            /\ CyStarts(dom[i].cy, <<"review", "rating">>)
            /\ IntOf(dom[i].cy[Len(dom[i].cy)]).ok
            /\ IF color = "white" THEN "review-rating-white" \in dom[i].cls
               ELSE "review-rating-white" \notin dom[i].cls
                    /\ "review-rating-black" \in dom[i].cls}

\* source 1: the rating of the last such element, 0 when there is none
AttrSource(color) ==
    LET dom == call.html.dom
        els == RatingElements(color)
    IN  IF els = {} THEN PyInt(0)
        ELSE PyInt(IntOf(dom[Max(els)].cy[Len(dom[Max(els)].cy)]).v)

HasRatingRow == TitledRows(call.html.dom, "Game Rating") # <<>>

\* source 2: the number in the color's span of the first "Game Rating" row
RowSource(color) ==
    LET dom == call.html.dom
    IN  IF ~HasRatingRow THEN PyInt(0)
        ELSE LET row   == TitledRows(dom, "Game Rating")[1]
                 spans == {i \in 1..Len(dom) :
                             /\ IsAncestor(dom, row, i) /\ dom[i].name = "span"
                             /\ \E a \in 1..Len(dom) :
                                   IsAncestor(dom, a, i)
                                   /\ ("review-rating-" \o color) \in dom[a].cls}
             IN  IF spans = {} THEN PyInt(0) ELSE _safe_int(get_text(dom, First(spans)))

\* source 3: the gameRating of the side's userDetails entry
DetailsSource(color) ==
    IF Truthy(DetailsMember(color, "gameRating"))
    THEN DetailsMember(color, "gameRating") ELSE PyInt(0)

Rating(color) == ret.value[color \o "_rating"]

\* C5: for each color the rating is the value of the first source, in the
\* order data-cy element, "Game Rating" row, userDetails gameRating, that
\* yields a non-zero value (0 when none does); so a non-zero data-cy rating is
\* never replaced by what the row or userDetails hold.
C5_RatingPrecedence ==
    PageReturned =>
        \A color \in Colors :
            Rating(color) =
                IF ~IsZero(AttrSource(color)) THEN AttrSource(color)
                ELSE IF ~IsZero(RowSource(color)) THEN RowSource(color)
                ELSE DetailsSource(color)

\* a non-zero data-cy rating of white wins over a different number in the row and
\* over gameRating, while black falls through to the row
C5_Witness ==
    /\ PageReturned
    /\ ~IsZero(AttrSource("white")) /\ ~IsZero(RowSource("white"))
    /\ RowSource("white") # AttrSource("white")
    /\ ~IsZero(DetailsSource("white")) /\ DetailsSource("white") # AttrSource("white")
    /\ Rating("white") = AttrSource("white")
    /\ IsZero(AttrSource("black")) /\ ~IsZero(RowSource("black"))
    /\ Rating("black") = RowSource("black")

\* C6 as stated: the "Game Rating" row is consulted only if both ratings are
\* zero after the data-cy step; when exactly one color got a non-zero data-cy
\* rating, the rating of the other color is not read from the row.
C6_OnlyIfBothZero ==
    PageReturned =>
        \A c \in Colors, d \in Colors :
            (c # d /\ ~IsZero(AttrSource(c)) /\ IsZero(AttrSource(d)))
                => Rating(d) = DetailsSource(d)

\* C6 amended: the "Game Rating" row is consulted if at least one rating is
\* zero after the data-cy step, and it is read only for a color whose rating
\* is zero: when exactly one color got a non-zero data-cy rating, that color
\* keeps it and the rating of the other color is read from the row.
C6_IfEitherZero ==
    PageReturned =>
        \A c \in Colors, d \in Colors :
            (c # d /\ ~IsZero(AttrSource(c)) /\ IsZero(AttrSource(d)) /\ HasRatingRow)
                => /\ Rating(c) = AttrSource(c)
                   /\ ~IsZero(RowSource(d)) => Rating(d) = RowSource(d)
                   /\ IsZero(RowSource(d)) => Rating(d) = DetailsSource(d)

\* white has a data-cy rating, black has none and gets the number of the row
C6_Witness ==
    /\ PageReturned /\ HasRatingRow
    /\ ~IsZero(AttrSource("white")) /\ IsZero(AttrSource("black"))
    /\ ~IsZero(RowSource("black")) /\ RowSource("black") # DetailsSource("black")
    /\ ~IsZero(RowSource("white")) /\ RowSource("white") # AttrSource("white")
    /\ Rating("black") = RowSource("black")
    /\ Rating("white") = AttrSource("white")

HasAccuracyRow == TitledRows(call.html.dom, "Accuracy") # <<>>
AccuracyRow == TitledRows(call.html.dom, "Accuracy")[1]

\* the number in the color's accuracy sub-element of the row, 0.0 without one
ColorAccuracy(color) ==
    LET spans == SelAccuracySpan(call.html.dom, AccuracyRow, color)
    IN  IF spans = <<>> THEN PyFloat(0, 0)
        ELSE _safe_float(get_text(call.html.dom, spans[1]))

\* the generic items of the row, in document order
RowItems ==
    LET dom == call.html.dom
    IN  SortedSeq({i \in 1..Len(dom) :
                     IsAncestor(dom, AccuracyRow, i) /\ "game-overview-row-item" \in dom[i].cls})

\* the number in the n-th generic item
ItemNumber(n) == _safe_float(get_text_strip(call.html.dom, RowItems[n]))

Accuracy(color) == ret.value[color \o "_accuracy"]

\* C7 as stated: with an "Accuracy" row whose color sub-elements leave both
\* accuracies zero and which has two generic items or more, white_accuracy is
\* the number in the first item and black_accuracy the number in the second;
\* with a non-zero color value the items are not used.
C7_ItemsInOrder ==
    (PageReturned /\ HasAccuracyRow) =>
        /\ (IsZero(ColorAccuracy("white")) /\ IsZero(ColorAccuracy("black"))
            /\ Len(RowItems) >= 2)
              => Accuracy("white") = ItemNumber(1) /\ Accuracy("black") = ItemNumber(2)
        /\ (~IsZero(ColorAccuracy("white")) \/ ~IsZero(ColorAccuracy("black")))
              => \A color \in Colors : Accuracy(color) = ColorAccuracy(color)

\* C7 amended: the same, unless the numbers in the first two items are both
\* zero: then the accuracies are left to the data-cy accuracy elements.
C7_NonZeroItemsInOrder ==
    (PageReturned /\ HasAccuracyRow) =>
        /\ (IsZero(ColorAccuracy("white")) /\ IsZero(ColorAccuracy("black"))
            /\ Len(RowItems) >= 2
            /\ ~(IsZero(ItemNumber(1)) /\ IsZero(ItemNumber(2))))
              => Accuracy("white") = ItemNumber(1) /\ Accuracy("black") = ItemNumber(2)
        /\ (~IsZero(ColorAccuracy("white")) \/ ~IsZero(ColorAccuracy("black")))
              => \A color \in Colors : Accuracy(color) = ColorAccuracy(color)

\* a row without color sub-elements whose two items hold different numbers,
\* on a page that also carries a data-cy accuracy element
C7_Witness ==
    /\ PageReturned /\ HasAccuracyRow
    /\ SelAccuracySpan(call.html.dom, AccuracyRow, "white") = <<>>
    /\ SelAccuracySpan(call.html.dom, AccuracyRow, "black") = <<>>
    /\ Len(RowItems) >= 2
    /\ ~IsZero(ItemNumber(1)) /\ ~IsZero(ItemNumber(2)) /\ ItemNumber(1) # ItemNumber(2)
    /\ SelAccuracyCy(call.html.dom) # <<>>
    /\ Accuracy("white") = ItemNumber(1) /\ Accuracy("black") = ItemNumber(2)

\* the panel that stands for a color
PanelOf(color) == IF color = "white" THEN "Top" ELSE "Bottom"

\* the username text inside the first panel of the color, None without one
PanelUsername(color) ==
    LET dom    == call.html.dom
        panels == {i \in 1..Len(dom) :
                     dom[i].cy = <<<<"analysis">>, <<"player">>, <<PanelOf(color)>>>>}
        names  == {i \in 1..Len(dom) :
                     panels # {} /\ IsAncestor(dom, First(panels), i)
                     /\ dom[i].test = "user-tagline-username"}
    IN  IF names = {} THEN PyNone
        ELSE PyStr(ConcatText(dom, First(names), First(names), TRUE))

Username(color) == ret.value[color \o "_username"]

\* C8: for each side the username is the userDetails username of the side
\* when that is present and not empty, otherwise the username text inside the
\* Top panel (white) or the Bottom panel (black), and empty when neither
\* source has one.
C8_UsernameSources ==
    PageReturned =>
        \A color \in Colors :
            Username(color) =
                IF Truthy(DetailsMember(color, "username"))
                THEN DetailsMember(color, "username")
                ELSE IF Truthy(PanelUsername(color)) THEN PanelUsername(color)
                ELSE PyStr(<<>>)

\* white is named by userDetails although the Top panel names somebody else,
\* black is named by the Bottom panel
C8_Witness ==
    /\ PageReturned
    /\ Truthy(DetailsMember("white", "username"))
    /\ Truthy(PanelUsername("white"))
    /\ PanelUsername("white") # DetailsMember("white", "username")
    /\ Username("white") = DetailsMember("white", "username")
    /\ ~Truthy(DetailsMember("black", "username"))
    /\ Truthy(PanelUsername("black"))
    /\ Username("black") = PanelUsername("black")

-----------------------------------------------------------------------------
(* analytics.py *)

WhiteWins == <<"1", "-", "0">>
BlackWins == <<"0", "-", "1">>
Draw == <<"1", "/", "2", "-", "1", "/", "2">>

\* the tally columns of player_games
categories == <<"brilliant", "great", "book", "best", "excellent", "good", "inaccuracy", "mistake", "miss", "blunder">>

CategorySet == {categories[i] : i \in 1..Len(categories)}

PlayerGameColumns ==
    {"username", "color", "rating", "accuracy", "win", "loss", "draw"} \union CategorySet

\* CASE WHEN result = text THEN 1 ELSE 0 END
case_result(row, text) == PyInt(IF row["result"] = PyStr(text) THEN 1 ELSE 0)

\* the select list of one branch of player_games for one row of games
select_list(row, color, won, lost) ==
    [c \in PlayerGameColumns |->
        CASE c = "username" -> row[color \o "_username"]
          [] c = "color" -> PyStr(color)
          [] c = "rating" -> row[color \o "_rating"]
          [] c = "accuracy" -> row["accuracy_" \o color]
          [] c = "win" -> case_result(row, won)
          [] c = "loss" -> case_result(row, lost)
          [] c = "draw" -> case_result(row, Draw)
          [] OTHER -> row[c \o "_" \o color]]

\* one branch of player_games: the rows whose username of that color is not ''
select_color(kept, color, won, lost) ==
    [i \in 1..Len(kept) |-> select_list(kept[i], color, won, lost)]

\* the branch without its WHERE clause
where_username_all(table, color) == table

\* WHERE white_username != '' / WHERE black_username != ''
where_username(table, color) ==
    SelectSeq(table, LAMBDA r : r[color \o "_username"] # PyStr(<<>>))

\* WITH player_games AS (SELECT ... UNION ALL SELECT ...) keeping the white branch only
player_games_white_only(table) ==
    select_color(where_username(table, "white"), "white", WhiteWins, BlackWins)

\* WITH player_games AS (SELECT ... UNION ALL SELECT ...)
player_games(table) ==
    select_color(where_username(table, "white"), "white", WhiteWins, BlackWins)
    \o select_color(where_username(table, "black"), "black", BlackWins, WhiteWins)

\* SUM(c) over the rows of a group, all integers
RECURSIVE SUM(_, _)
SUM(rows, c) == IF rows = <<>> THEN 0 ELSE rows[1][c].v + SUM(Tail(rows), c)

\* a number as num / 10^exp
Decimal(v) ==
    IF v.t = "int" THEN [num |-> v.v, exp |-> 0] ELSE [num |-> v.num, exp |-> v.exp]

RECURSIVE MaxExp(_, _)
MaxExp(rows, c) ==
    IF rows = <<>> THEN 0
    ELSE LET rest == MaxExp(Tail(rows), c)
             e == Decimal(rows[1][c]).exp
         IN  IF e > rest THEN e ELSE rest

\* the sum of column c in units of 10^-scale
RECURSIVE ScaledSum(_, _, _)
ScaledSum(rows, c, scale) ==
    IF rows = <<>> THEN 0
    ELSE Decimal(rows[1][c]).num * Pow10(scale - Decimal(rows[1][c]).exp)
         + ScaledSum(Tail(rows), c, scale)

\* num / den cut off after the digits
ROUND_truncated(num, den, digits) ==
    LET scaled == (IF num < 0 THEN 0 - num ELSE num) * Pow10(digits)
    IN  PyFloat(IF num < 0 THEN 0 - (scaled \div den) ELSE scaled \div den, digits)

\* ROUND(num / den, digits) for den > 0: to the nearest, a half away from zero
ROUND(num, den, digits) ==
    LET scaled == (IF num < 0 THEN 0 - num ELSE num) * Pow10(digits)
        nearest == (2 * scaled + den) \div (2 * den)
    IN  PyFloat(IF num < 0 THEN 0 - nearest ELSE nearest, digits)

\* ROUND(AVG(c), 1) written as the integer part of the mean
round_avg_floor(rows, c, scale) ==
    PyFloat((ScaledSum(rows, c, scale) \div (Len(rows) * Pow10(scale))) * 10, 1)

\* ROUND(AVG(c), 1) over the rows of a group
round_avg_scaled(rows, c, scale) ==
    ROUND(ScaledSum(rows, c, scale), Len(rows) * Pow10(scale), 1)

round_avg(rows, c) == round_avg_scaled(rows, c, MaxExp(rows, c))

\* ROUND(1.0 * SUM(c) / NULLIF(COUNT( * ), 0), 2)
per_game(rows, c) ==
    IF Len(rows) = 0 THEN PyNone ELSE ROUND(SUM(rows, c), Len(rows), 2)

SummaryColumns ==
    {"username", "games_played", "wins", "losses", "draws", "avg_rating", "avg_accuracy",
     "avg_brilliant_per_game", "avg_great_per_game", "avg_blunder_per_game"}
    \union {"total_" \o c : c \in CategorySet}

\* the select list of the aggregate query for the rows of one username
player_summary(rows) ==
    [c \in SummaryColumns |->
        CASE c = "username" -> rows[1]["username"]
          [] c = "games_played" -> PyInt(Len(rows))
          [] c = "wins" -> PyInt(SUM(rows, "win"))
          [] c = "losses" -> PyInt(SUM(rows, "loss"))
          [] c = "draws" -> PyInt(SUM(rows, "draw"))
          [] c = "avg_rating" -> round_avg(rows, "rating")
          [] c = "avg_accuracy" -> round_avg(rows, "accuracy")
          [] c = "avg_brilliant_per_game" -> per_game(rows, "brilliant")
          [] c = "avg_great_per_game" -> per_game(rows, "great")
          [] c = "avg_blunder_per_game" -> per_game(rows, "blunder")
          [] OTHER -> PyInt(SUM(rows, CHOOSE k \in CategorySet : c = "total_" \o k))]

\* GROUP BY username
group_by_username(pg) ==
    {SelectSeq(pg, LAMBDA r : r["username"] = u) : u \in {pg[i]["username"] : i \in 1..Len(pg)}}

\* ORDER BY total_brilliant only
order_by_brilliant(a, b) == a["total_brilliant"].v >= b["total_brilliant"].v

\* ORDER BY total_brilliant DESC, games_played DESC: a may come before b
order_by(a, b) ==
    \/ a["total_brilliant"].v > b["total_brilliant"].v
    \/ /\ a["total_brilliant"].v = b["total_brilliant"].v
       /\ a["games_played"].v >= b["games_played"].v

\* the orders fetchall() may deliver: SQLite leaves the order of rows with equal
\* sort keys open
fetchall(entries) ==
    {s \in [1..Cardinality(entries) -> entries] :
        /\ \A i, j \in DOMAIN s : s[i] = s[j] => i = j
        /\ \A i \in DOMAIN s : i < Len(s) => order_by(s[i], s[i + 1])}

\* the lists get_player_stats may return for a table (row_factory, line 13, is
\* already sqlite3.Row on a connection of get_connection)
get_player_stats(table) ==
    fetchall({player_summary(rows) : rows \in group_by_username(player_games(table))})

\* the usernames of one SELECT of the players query
select_username(kept, color) == {kept[i][color \o "_username"] : i \in 1..Len(kept)}

\* the white branch of the players query alone
players_white_only(table) ==
    select_username(where_username(table, "white"), "white")

\* SELECT white_username ... WHERE white_username != '' UNION SELECT black_username ...
players(table) ==
    select_username(where_username(table, "white"), "white")
    \union select_username(where_username(table, "black"), "black")

\* SUM(brilliant_white + brilliant_black) over at least one row
RECURSIVE sum_brilliant(_)
sum_brilliant(table) ==
    table[1]["brilliant_white"].v + table[1]["brilliant_black"].v
    + (IF Len(table) = 1 THEN 0 ELSE sum_brilliant(Tail(table)))

\* SUM over no rows is NULL and stays NULL
total_brilliant_null(table) ==
    IF table = <<>> THEN PyNone ELSE PyInt(sum_brilliant(table))

\* COALESCE(SUM(brilliant_white + brilliant_black), 0): SUM over no rows is NULL
total_brilliant(table) ==
    IF table = <<>> THEN PyInt(0) ELSE PyInt(sum_brilliant(table))

get_season_summary(table) ==
    [total_games |-> PyInt(Len(table)),
     unique_players |-> PyInt(Cardinality(players(table))),
     total_brilliant_moves |-> total_brilliant(table)]

-----------------------------------------------------------------------------
(* Inputs: the games of a season *)

Alice == <<"alice">>
Bob == <<"bob">>
Carol == <<"carol">>

\* games without an id: the two games of the worked example, a draw with a third
\* player and a zero accuracy, and a game stored without a white username
SeasonGames(id) ==
    << GameData(id, Alice, Bob, 1300, 1450, 766, 815, 0, 1, BlackWins),
       GameData(id, Bob, Alice, 1400, 1350, 700, 900, 2, 0, WhiteWins),
       GameData(id, Carol, Bob, 1500, 1460, 880, 0, 0, 1, Draw),
       GameData(id, <<>>, Bob, 0, 1440, 0, 0, 2, 0, <<"*">>) >>

SeasonId(i) == <<"s", CodeChar(48 + i)>>

\* the record of a collected page that shows no player and a Brilliant tally of "-5"
UnnamedGame(id) ==
    parse_game_review_page(Page(<<Tally("Brilliant", "white", <<"-", "5">>)>>, <<>>), id).value

\* id i carries two of the games, the first id the unnamed game as well
SeasonData ==
    UNION {{SeasonGames(SeasonId(i))[((i - 1) % 4) + 1], SeasonGames(SeasonId(i))[(i % 4) + 1]}
           : i \in 1..MaxInserts}
    \union {UnnamedGame(SeasonId(1))}

-----------------------------------------------------------------------------
(* The games table under insert_game and the two summary calls *)

Returned(value) == [status |-> "returned", exc |-> "none", value |-> value]

\* insert_game as a plain INSERT: the row of an earlier insert with the id stays
CallInsertGame_append(data) ==
    /\ Len(inserted) < MaxInserts
    /\ games' = Append(games, bound_row(data))
    /\ inserted' = Append(inserted, data)
    /\ call' = [NoCall EXCEPT !.fn = "insert_game"]
    /\ ret' = Returned(PyNone)

CallInsertGame(data) ==
    /\ Len(inserted) < MaxInserts
    /\ games' = insert_game(games, data)
    /\ inserted' = Append(inserted, data)
    /\ call' = [NoCall EXCEPT !.fn = "insert_game"]
    /\ ret' = Returned(PyNone)

GetPlayerStats ==
    /\ \E rows \in get_player_stats(games) : ret' = Returned(rows)
    /\ call' = [NoCall EXCEPT !.fn = "get_player_stats"]
    /\ UNCHANGED <<games, inserted>>

GetSeasonSummary ==
    /\ ret' = Returned(get_season_summary(games))
    /\ call' = [NoCall EXCEPT !.fn = "get_season_summary"]
    /\ UNCHANGED <<games, inserted>>

NextSeason ==
    \/ \E data \in SeasonData : CallInsertGame(data)
    \/ GetPlayerStats
    \/ GetSeasonSummary

SpecSeason == Init /\ [][NextSeason]_vars

-----------------------------------------------------------------------------
(* browser.py *)

\* what the browser has when extract_game_review comes to parse: nothing (the page
\* did not load, or no board or no tallies appeared) or the content of the page
NoContent == [loaded |-> FALSE, html |-> EmptyPage]
Content(html) == [loaded |-> TRUE, html |-> html]

\* extract_game_review: None, or what parse_game_review_page makes of the content
extract_game_review(content, game_id) ==
    IF ~content.loaded
    THEN [status |-> "returned", exc |-> "none", value |-> PyNone]
    ELSE parse_game_review_page(content.html, game_id)

-----------------------------------------------------------------------------
(* cli.py *)

\* choices of --result
ResultChoices == {WhiteWins, BlackWins, Draw}

\* if data: a dict that is not empty
DictTruthy(data) == data # PyNone /\ DOMAIN data # {}

\* the command ends with an exit code / with an exception; table is the games
\* table it leaves and data the dicts it has handed to insert_game
Exit(code, table, data) ==
    [status |-> "returned", exc |-> "none", value |-> PyInt(code), table |-> table, data |-> data]
Abort(exc, table, data) ==
    [status |-> "raised", exc |-> exc, value |-> PyNone, table |-> table, data |-> data]

\* get_connection, insert_game, commit, close, return 0
save(table, data) == Exit(0, insert_game(table, data), <<data>>)

\* the parsed record under the usernames of the command line only
override_usernames_only(parsed, args) ==
    [parsed EXCEPT !["white_username"] = PyStr(args.white_username),
                   !["black_username"] = PyStr(args.black_username)]

\* the parsed record under the usernames of the command line and under --result if
\* it is given
override(parsed, args) ==
    [parsed EXCEPT !["white_username"] = PyStr(args.white_username),
                   !["black_username"] = PyStr(args.black_username),
                   !["result"] = IF Truthy(args.result) THEN args.result ELSE @]

\* the dict built without a review: zero accuracies and tallies
metadata(args, white_rating, black_rating, result) ==
    [k \in RecordKeys |->
        CASE k = "game_id" -> PyStr(args.pgn_code)
          [] k = "white_username" -> PyStr(args.white_username)
          [] k = "black_username" -> PyStr(args.black_username)
          [] k = "white_rating" -> white_rating
          [] k = "black_rating" -> black_rating
          [] k = "result" -> result
          [] k \in {"white_accuracy", "black_accuracy"} -> PyFloat(0, 0)
          [] OTHER -> PyInt(0)]

\* the --html-file branch once the file is parsed
manual_html_file(table, args, parsed) ==
    IF parsed.status = "raised" THEN Abort(parsed.exc, table, <<>>)
    ELSE save(table, override(parsed.value, args))

\* the --pgn-file / stdin branch once the text is parsed
manual_pgn_text(table, args, parsed) ==
    save(table, metadata(args, Get(parsed, "white_rating", PyInt(0)),
                         Get(parsed, "black_rating", PyInt(0)),
                         PyOr(args.result, Get(parsed, "result", PyStr(<<>>)))))

\* the fetch branch once extract_game_review is back
manual_fetch(table, args, data_fetched) ==
    IF data_fetched.status = "raised" THEN Abort(data_fetched.exc, table, <<>>)
    ELSE IF DictTruthy(data_fetched.value)
    THEN save(table, [override(data_fetched.value, args) EXCEPT !["game_id"] = PyStr(args.pgn_code)])
    ELSE IF Truthy(args.result)
    THEN save(table, metadata(args, PyInt(0), PyInt(0), args.result))
    ELSE Exit(1, table, <<>>)

\* env: the text of the html file, the text of the pgn file or of stdin, whether
\* stdin is a terminal, and what the browser gets
cmd_manual_pgn(table, args, env) ==
    IF args.html_file
    THEN manual_html_file(table, args, parse_game_review_page(env.html, args.pgn_code))
    ELSE IF args.pgn_file \/ ~env.isatty
    THEN manual_pgn_text(table, args, parse_pgn_text(env.pgn))
    ELSE manual_fetch(table, args, extract_game_review(env.content, args.pgn_code))

\* the loop of cmd_collect over the game ids of the csv file, contents being what
\* the browser gets for each of them
RECURSIVE collect_loop(_, _, _, _)
collect_game(table, data, game_ids, contents, fetched) ==
    IF fetched.status = "raised" THEN Abort(fetched.exc, table, data)
    ELSE IF DictTruthy(fetched.value)
    THEN collect_loop(insert_game(table, fetched.value), Append(data, fetched.value),
                      Tail(game_ids), Tail(contents))
    ELSE collect_loop(table, data, Tail(game_ids), Tail(contents))

collect_loop(table, data, game_ids, contents) ==
    IF game_ids = <<>> THEN Exit(0, table, data)
    ELSE collect_game(table, data, game_ids, contents,
                      extract_game_review(contents[1], game_ids[1]))

cmd_collect(table, game_ids, contents) ==
    IF game_ids = <<>> THEN Exit(1, table, <<>>)
    ELSE collect_loop(table, <<>>, game_ids, contents)

-----------------------------------------------------------------------------
(* Inputs: command lines, files and fetched pages *)

MaxCommands == 2     \* commands that store a game in one run

PgnCode == <<"1", "c", "d", "-", "0", "8">>

\* a review page with a tally, an accuracy and a result, a page whose Result tag is
\* no result, and a page whose userDetails is not an object
ReviewPage ==
    Page(<<Tally("Brilliant", "black", <<"1">>),
           Row(<<"Accuracy">>, <<AccuracyItem("white", <<"7", "6", ".", "6">>)>>)>>,
         <<Script("pgn", ResultTag(BlackWins))>>)

CliPages ==
    { ReviewPage,
      Page(<<>>, <<Script("pgn", ResultTag(<<"2", "-", "0">>))>>),
      Page(<<>>, BlobScripts(<<"[", "1", "]">>)) }

Contents == {NoContent} \union {Content(h) : h \in CliPages}

CliPgns ==
    { ResultTag(<<"*">>) \o <<"\n">> \o EloTag("[WhiteElo", <<"9">>),
      ResultTag(<<"2", "-", "0">>) }

ManualArgs(html_file, pgn_file) ==
    {[pgn_code |-> PgnCode, white_username |-> Alice, black_username |-> Bob,
      result |-> r, html_file |-> html_file, pgn_file |-> pgn_file] :
        r \in {PyNone} \union {PyStr(x) : x \in ResultChoices}}

ManualEnv(html, pgn, isatty, content) ==
    [html |-> html, pgn |-> pgn, isatty |-> isatty, content |-> content]

ManualCalls ==
    {[fn |-> "cmd_manual_pgn", args |-> a, env |-> e] :
        a \in ManualArgs(TRUE, FALSE),
        e \in {ManualEnv(h, <<>>, TRUE, NoContent) : h \in CliPages}}
    \union {[fn |-> "cmd_manual_pgn", args |-> a, env |-> e] :
        a \in ManualArgs(FALSE, TRUE),
        e \in {ManualEnv(EmptyPage, t, TRUE, NoContent) : t \in CliPgns}}
    \union {[fn |-> "cmd_manual_pgn", args |-> a, env |-> e] :
        a \in ManualArgs(FALSE, FALSE),
        e \in {ManualEnv(EmptyPage, t, FALSE, NoContent) : t \in CliPgns}
              \union {ManualEnv(EmptyPage, <<>>, TRUE, c) : c \in Contents}}

CollectIds == {<<>>, <<<<"1", "6", "5">>>>, <<<<"1", "6", "5">>, <<"1", "6", "6">>>>}

CollectCalls ==
    {[fn |-> "cmd_collect", game_ids |-> ids, contents |-> cs] :
        ids \in CollectIds, cs \in UNION {[1..n -> Contents] : n \in 0..2}}

-----------------------------------------------------------------------------
(* The games table under the collect and manual-pgn commands *)

Run(c, out) ==
    /\ games' = out.table
    /\ inserted' = inserted \o out.data
    /\ call' = c
    /\ ret' = [status |-> out.status, exc |-> out.exc, value |-> out.value]

CmdCollect ==
    /\ Len(inserted) < MaxCommands
    /\ \E c \in CollectCalls :
          /\ Len(c.contents) = Len(c.game_ids)
          /\ Run(c, cmd_collect(games, c.game_ids, c.contents))

CmdManualPgn ==
    /\ Len(inserted) < MaxCommands
    /\ \E c \in ManualCalls : Run(c, cmd_manual_pgn(games, c.args, c.env))

NextCli == CmdCollect \/ CmdManualPgn

SpecCli == Init /\ [][NextCli]_vars

-----------------------------------------------------------------------------
(* Claims about the summaries *)

StatsReturned == call.fn = "get_player_stats" /\ ret.status = "returned"
SummaryReturned == call.fn = "get_season_summary" /\ ret.status = "returned"

\* the rows of the table in which u plays the color
RowsOf(color, u) == {i \in 1..Len(games) : games[i][color \o "_username"] = u}

\* those of them that ended with the result
RowsWith(color, u, text) == {i \in RowsOf(color, u) : games[i]["result"] = PyStr(text)}

\* the non-empty usernames of the table
NamedPlayers ==
    ({games[i]["white_username"] : i \in 1..Len(games)}
     \union {games[i]["black_username"] : i \in 1..Len(games)}) \ {PyStr(<<>>)}

\* C11: get_player_stats returns one entry per distinct non-empty username of the
\* table; its games_played is the number of rows with the player as white plus the
\* number as black, wins are the rows as white ending 1-0 or as black ending 0-1,
\* losses the converse, draws the rows of either side ending 1/2-1/2; an empty
\* username has no entry.
C11_PerPlayerCounts ==
    StatsReturned =>
        /\ Len(ret.value) = Cardinality(NamedPlayers)
        /\ {ret.value[k]["username"] : k \in 1..Len(ret.value)} = NamedPlayers
        /\ \A k \in 1..Len(ret.value) :
              LET e == ret.value[k]
                  u == e["username"]
              IN  /\ e["games_played"] =
                        PyInt(Cardinality(RowsOf("white", u)) + Cardinality(RowsOf("black", u)))
                  /\ e["wins"] =
                        PyInt(Cardinality(RowsWith("white", u, WhiteWins))
                              + Cardinality(RowsWith("black", u, BlackWins)))
                  /\ e["losses"] =
                        PyInt(Cardinality(RowsWith("white", u, BlackWins))
                              + Cardinality(RowsWith("black", u, WhiteWins)))
                  /\ e["draws"] =
                        PyInt(Cardinality(RowsWith("white", u, Draw))
                              + Cardinality(RowsWith("black", u, Draw)))

\* a returned list with a winner, a loser and a drawn game, over a table that has a
\* row without a white username and a player on both colors
C11_Witness ==
    /\ StatsReturned
    /\ \E i \in 1..Len(games) : games[i]["white_username"] = PyStr(<<>>)
    /\ \E k \in 1..Len(ret.value) :
          /\ ret.value[k]["wins"].v > 0
          /\ ret.value[k]["draws"].v > 0
          /\ RowsOf("white", ret.value[k]["username"]) # {}
          /\ RowsOf("black", ret.value[k]["username"]) # {}

\* a number of at most two decimals, in hundredths
Hundredths(v) == Decimal(v).num * Pow10(2 - Decimal(v).exp)

\* the sum of column c over the rows S of the table, in hundredths
RECURSIVE SumRows(_, _)
SumRows(S, c) ==
    IF S = {} THEN 0
    ELSE LET i == CHOOSE i \in S : TRUE
         IN  Hundredths(games[i][c]) + SumRows(S \ {i}, c)

\* value is total / count rounded to the given number of decimals (at most two),
\* total being in hundredths
IsRounded(value, total, count, decimals) ==
    LET diff == count * Hundredths(value) - total
    IN  /\ value.t = "float"
        /\ value.exp <= decimals
        /\ 2 * (IF diff < 0 THEN 0 - diff ELSE diff) <= count * Pow10(2 - decimals)

\* C12: a player's avg_accuracy is the sum of the accuracies of the player's sides
\* over all contributing rows divided by games_played, rounded to one decimal, a 0.0
\* accuracy counting in the denominator; avg_rating likewise over the ratings.
C12_RoundedMeans ==
    StatsReturned =>
        \A k \in 1..Len(ret.value) :
            LET e == ret.value[k]
                u == e["username"]
            IN  /\ IsRounded(e["avg_accuracy"],
                             SumRows(RowsOf("white", u), "accuracy_white")
                             + SumRows(RowsOf("black", u), "accuracy_black"),
                             e["games_played"].v, 1)
                /\ IsRounded(e["avg_rating"],
                             SumRows(RowsOf("white", u), "white_rating")
                             + SumRows(RowsOf("black", u), "black_rating"),
                             e["games_played"].v, 1)

\* a player whose mean accuracy is not a multiple of 0.1 and includes a 0.0 row,
\* and whose mean rating is not a multiple of 0.1 either
C12_Witness ==
    /\ StatsReturned
    /\ \E k \in 1..Len(ret.value) :
          LET e == ret.value[k]
              u == e["username"]
          IN  /\ \E i \in RowsOf("black", u) : games[i]["accuracy_black"] = PyFloat(0, 0)
              /\ e["games_played"].v * Hundredths(e["avg_accuracy"])
                    # SumRows(RowsOf("white", u), "accuracy_white")
                      + SumRows(RowsOf("black", u), "accuracy_black")
              /\ e["games_played"].v * Hundredths(e["avg_rating"])
                    # SumRows(RowsOf("white", u), "white_rating")
                      + SumRows(RowsOf("black", u), "black_rating")
              /\ e["avg_accuracy"].num > 0

\* the sum of a tally category over the sides of u, in hundredths
CategoryTotal(u, c) ==
    SumRows(RowsOf("white", u), c \o "_white") + SumRows(RowsOf("black", u), c \o "_black")

\* C13: every entry of get_player_stats carries, for each of the ten tally
\* categories, the sum over the player's contributing rows and a per-game mean, the
\* sum divided by games_played rounded to two decimals.
C13_TenMeans ==
    StatsReturned =>
        \A k \in 1..Len(ret.value) : \A c \in CategorySet :
            LET e == ret.value[k]
            IN  /\ ("total_" \o c) \in DOMAIN e
                /\ 100 * e["total_" \o c].v = CategoryTotal(e["username"], c)
                /\ ("avg_" \o c \o "_per_game") \in DOMAIN e
                /\ IsRounded(e["avg_" \o c \o "_per_game"], CategoryTotal(e["username"], c),
                             e["games_played"].v, 2)

\* C14: the list returned by get_player_stats is sorted by total_brilliant
\* descending and, among equal total_brilliant, by games_played descending: of two
\* adjacent entries a before b, a has more brilliant moves, or as many and at least
\* as many games.
C14_Sorted ==
    StatsReturned =>
        \A k \in 1..(Len(ret.value) - 1) :
            LET a == ret.value[k]
                b == ret.value[k + 1]
            IN  \/ a["total_brilliant"].v > b["total_brilliant"].v
                \/ /\ a["total_brilliant"].v = b["total_brilliant"].v
                   /\ a["games_played"].v >= b["games_played"].v

\* three entries: the first ahead by its brilliant moves, the other two equal in
\* them and ordered by their games
C14_Witness ==
    /\ StatsReturned
    /\ Len(ret.value) = 3
    /\ ret.value[1]["total_brilliant"].v > ret.value[2]["total_brilliant"].v
    /\ ret.value[2]["total_brilliant"].v = ret.value[3]["total_brilliant"].v
    /\ ret.value[2]["games_played"].v > ret.value[3]["games_played"].v

SummaryOf(rows, names, brilliant) ==
    [total_games |-> PyInt(rows), unique_players |-> PyInt(names),
     total_brilliant_moves |-> PyInt(brilliant)]

\* C15: on an empty games table get_player_stats returns the empty list and
\* get_season_summary returns total_games 0, unique_players 0 and
\* total_brilliant_moves 0; neither raises.
C15_EmptyTable ==
    games = <<>> =>
        /\ call.fn \in {"get_player_stats", "get_season_summary"} =>
              ret.status = "returned" /\ ret.exc = "none"
        /\ StatsReturned => ret.value = <<>>
        /\ SummaryReturned => ret.value = SummaryOf(0, 0, 0)

\* get_season_summary has returned on the empty table
C15_Witness == games = <<>> /\ SummaryReturned /\ DOMAIN ret.value = DOMAIN SummaryOf(0, 0, 0)

AllRows == 1..Len(games)

\* C16: get_season_summary returns the number of rows as total_games, the number of
\* distinct non-empty usernames occurring as white or as black as unique_players,
\* and the sum over all rows of brilliant_white + brilliant_black as
\* total_brilliant_moves.
C16_SeasonSummary ==
    SummaryReturned =>
        /\ DOMAIN ret.value = {"total_games", "unique_players", "total_brilliant_moves"}
        /\ ret.value["total_games"] = PyInt(Len(games))
        /\ ret.value["unique_players"] = PyInt(Cardinality(NamedPlayers))
        /\ 100 * ret.value["total_brilliant_moves"].v
              = SumRows(AllRows, "brilliant_white") + SumRows(AllRows, "brilliant_black")

\* a summary of three rows, one without a white username, with a player who only
\* ever plays black and one who plays both colors
C16_Witness ==
    /\ SummaryReturned
    /\ Len(games) = 3
    /\ \E i \in AllRows : games[i]["white_username"] = PyStr(<<>>)
    /\ \E i, j \in AllRows : i # j /\ games[i]["white_username"] = games[j]["black_username"]
    /\ \E i \in AllRows : RowsOf("white", games[i]["black_username"]) = {}
    /\ ret.value["total_brilliant_moves"].v > 0

\* the row is the n-th game of SeasonGames under its own id
IsSeasonGame(row, n) == row = bound_row(SeasonGames(row["game_id"].v)[n])

\* the table holds exactly the two games of the worked example
ExampleStored ==
    /\ Len(games) = 2
    /\ \E i, j \in AllRows : IsSeasonGame(games[i], 1) /\ IsSeasonGame(games[j], 2)

\* the entry shows these values
EntryShows(e, name, played, won, lost, brilliant, accuracy) ==
    /\ e["username"] = PyStr(name)
    /\ e["games_played"] = PyInt(played)
    /\ e["wins"] = PyInt(won)
    /\ e["losses"] = PyInt(lost)
    /\ e["total_brilliant"] = PyInt(brilliant)
    /\ e["avg_accuracy"] = accuracy

\* C17 as stated: with exactly the games A and B stored, get_player_stats returns
\* bob (2 games, 1 win, 1 loss, 3 brilliant, accuracy 75.75) and then alice (2 games,
\* 1 win, 1 loss, 0 brilliant, accuracy 83.3), and get_season_summary returns 2 games,
\* 2 players and 3 brilliant moves.
C17_AsStated ==
    ExampleStored =>
        /\ StatsReturned =>
              /\ Len(ret.value) = 2
              /\ EntryShows(ret.value[1], Bob, 2, 1, 1, 3, PyFloat(7575, 2))
              /\ EntryShows(ret.value[2], Alice, 2, 1, 1, 0, PyFloat(833, 1))
        /\ SummaryReturned => ret.value = SummaryOf(2, 2, 3)

\* C17 amended: with exactly the games A and B stored, get_player_stats returns bob
\* (2 games, 2 wins, 0 losses, 3 brilliant, accuracy 75.8) and then alice (2 games,
\* 0 wins, 2 losses, 0 brilliant, accuracy 83.3), and get_season_summary returns
\* 2 games, 2 players and 3 brilliant moves.
C17_Example ==
    ExampleStored =>
        /\ StatsReturned =>
              /\ Len(ret.value) = 2
              /\ EntryShows(ret.value[1], Bob, 2, 2, 0, 3, PyFloat(758, 1))
              /\ EntryShows(ret.value[2], Alice, 2, 0, 2, 0, PyFloat(833, 1))
        /\ SummaryReturned => ret.value = SummaryOf(2, 2, 3)

\* get_player_stats has returned on the table of the worked example
C17_Witness == ExampleStored /\ StatsReturned /\ Len(ret.value) = 2

\* the positions of the insert history that no later insert with the same id follows
LatestInserts ==
    {i \in 1..Len(inserted) :
        \A j \in (i + 1)..Len(inserted) : IdOf(inserted[j]) # IdOf(inserted[i])}

\* the latest record of every inserted id as a table, in the order of the inserts
LatestRecords ==
    LET order == SortedSeq(LatestInserts)
    IN  [k \in 1..Len(order) |-> bound_row(inserted[order[k]])]

\* the value of the summary call that has returned comes from the latest records
FromLatestRecords ==
    /\ StatsReturned => ret.value \in get_player_stats(LatestRecords)
    /\ SummaryReturned => ret.value = get_season_summary(LatestRecords)

\* a summary call leaves the table as it is
SummaryCallReadsOnly ==
    call'.fn \in {"get_player_stats", "get_season_summary"} =>
        games' = games /\ inserted' = inserted

\* C18: in every interleaving of insert_game, get_player_stats and
\* get_season_summary calls, a summary call returns the value of the table as it is
\* at the call: the latest record of every inserted id and nothing of the records
\* they replaced, whatever summary calls came before, and the call changes nothing
\* in the table.
C18_SummariesOfCurrentTable == []FromLatestRecords /\ [][SummaryCallReadsOnly]_vars

\* a summary returned after a game was replaced by a record with other players, one
\* of the replaced players having no entry any more
C18_Witness ==
    /\ StatsReturned
    /\ \E i, j \in 1..Len(inserted) :
          /\ i < j
          /\ IdOf(inserted[i]) = IdOf(inserted[j])
          /\ \A k \in 1..Len(ret.value) :
                ret.value[k]["username"] # inserted[i]["white_username"]
          /\ inserted[i]["white_username"] # PyStr(<<>>)

\* C20: for every table reachable by insert_game, get_player_stats returns as many
\* entries as get_season_summary counts unique_players, and the usernames of the
\* entries are pairwise distinct and not empty.
C20_EntriesArePlayers ==
    /\ StatsReturned =>
          /\ PyInt(Len(ret.value)) = get_season_summary(games)["unique_players"]
          /\ \A j, k \in 1..Len(ret.value) :
                ret.value[j]["username"] = ret.value[k]["username"] => j = k
          /\ \A k \in 1..Len(ret.value) : ret.value[k]["username"] # PyStr(<<>>)
    /\ SummaryReturned =>
          \A rows \in get_player_stats(games) : PyInt(Len(rows)) = ret.value["unique_players"]

\* a list of three entries over a table with a side without username and a player
\* in more than one row
C20_Witness ==
    /\ StatsReturned
    /\ Len(ret.value) = 3
    /\ \E i \in AllRows : games[i]["white_username"] = PyStr(<<>>)
    /\ \E k \in 1..Len(ret.value) : ret.value[k]["games_played"].v > 1

-----------------------------------------------------------------------------
(* Claims about the commands *)

StoredResults == {PyStr(r) : r \in CanonicalResults \union {<<>>}}

\* every stored result is one of "1-0", "0-1", "1/2-1/2", "*", ""
ResultsInSet == \A i \in 1..Len(games) : games[i]["result"] \in StoredResults

\* a manual-pgn command with --result that saves leaves the row of its game with
\* that result
GivenResultStored ==
    (/\ call'.fn = "cmd_manual_pgn"
     /\ Truthy(call'.args.result)
     /\ ret'.status = "returned") =>
        /\ ret'.value = PyInt(0)
        /\ \E i \in 1..Len(games') :
              /\ games'[i]["game_id"] = PyStr(call'.args.pgn_code)
              /\ games'[i]["result"] = call'.args.result

\* a manual-pgn command that has to fetch, gets nothing and has no --result
FetchFailed(c) ==
    /\ c.fn = "cmd_manual_pgn"
    /\ ~c.args.html_file /\ ~c.args.pgn_file /\ c.env.isatty
    /\ ~c.env.content.loaded
    /\ ~Truthy(c.args.result)

FailedFetchWritesNothing ==
    FetchFailed(call') => games' = games /\ ret'.value = PyInt(1)

\* C19: after any sequence of collect and manual-pgn commands, through the html
\* file, the pgn file or stdin and the fetch, with or without --result, every row
\* of the games table has a result among "1-0", "0-1", "1/2-1/2", "*" and ""; a
\* command given --result stores that value, and the manual-pgn command whose fetch
\* fails without --result writes nothing.
C19_StoredResults ==
    []ResultsInSet /\ [][GivenResultStored /\ FailedFetchWritesNothing]_vars

\* a game stored by manual-pgn from the review page under a --result other than the
\* result of the page, beside a game stored from a page whose Result tag is no
\* result
C19_Witness ==
    /\ call.fn = "cmd_manual_pgn"
    /\ call.args.html_file
    /\ call.env.html = ReviewPage
    /\ call.args.result = PyStr(Draw)
    /\ ret.value = PyInt(0)
    /\ \E i, j \in 1..Len(games) :
          /\ games[i]["result"] = PyStr(<<>>)
          /\ games[j]["result"] = PyStr(Draw)
          /\ games[j]["game_id"] = PyStr(PgnCode)

-----------------------------------------------------------------------------
(* Claims relating the two summaries *)

\* the sum of an integer column over the entries of a returned list
RECURSIVE SumEntries(_, _)
SumEntries(entries, c) ==
    IF entries = <<>> THEN 0 ELSE entries[1][c].v + SumEntries(Tail(entries), c)

\* the rows without a username of the color
Unnamed(color) == RowsOf(color, PyStr(<<>>))

\* no side without a username has a brilliant move
NoUnnamedBrilliant ==
    /\ \A i \in Unnamed("white") : games[i]["brilliant_white"].v <= 0
    /\ \A i \in Unnamed("black") : games[i]["brilliant_black"].v <= 0

\* C21: for every table reachable by insert_game, the total_brilliant of the
\* entries of get_player_stats sum to at most total_brilliant_moves of
\* get_season_summary, and to exactly that when no side without a username has a
\* brilliant count above 0; their games_played sum to twice total_games less the
\* number of sides without a username.
C21_TotalsAgree ==
    StatsReturned =>
        /\ SumEntries(ret.value, "total_brilliant")
              <= get_season_summary(games)["total_brilliant_moves"].v
        /\ (SumEntries(ret.value, "total_brilliant")
              = get_season_summary(games)["total_brilliant_moves"].v) <=> NoUnnamedBrilliant
        /\ SumEntries(ret.value, "games_played")
              = 2 * get_season_summary(games)["total_games"].v
                - Cardinality(Unnamed("white")) - Cardinality(Unnamed("black"))

====
